---- MODULE Spec2Model ----
(***************************************************************************)
(* Scheme-manager trust and synchronisation engine of irmago               *)
(* (irmaconfig.go, identifiers.go).                                        *)
(*                                                                         *)
(* Strings are sequences of tokens.  A token is a TLA+ string standing for *)
(* a run of characters that contains no separator: "/", ".", " " and the   *)
(* line feed are tokens of their own, so that strings.LastIndex,           *)
(* strings.Split and the two regular expressions of UpdateSchemeManager    *)
(* are computed on the string, as the code computes them.                  *)
(***************************************************************************)
EXTENDS Integers, Sequences, FiniteSets, TLC

VARIABLES
    disk,      \* the irma_configuration folder: relative path -> file content
    remote,    \* what each manager's server answers: manager -> path -> content
    conf,      \* the Configuration struct (irmaconfig.go:38-54)
    ret,       \* what the last call returned, and what it did on the way
    crashed,   \* a panic left the last call (the process is gone)
    text       \* the index text handed to FromString in SpecIndex

vars == <<disk, remote, conf, ret, crashed, text>>

(***************************************************************************)
(* Bounds                                                                  *)
(***************************************************************************)
MaxTextLen == 7

(***************************************************************************)
(* Strings                                                                 *)
(***************************************************************************)
LF == "\n"

\* the one element of a set of one element; x \in {e} below names the value of e
The(S) == CHOOSE x \in S : TRUE

Range(s) == {s[k] : k \in 1..Len(s)}

RECURSIVE ScanBack(_, _, _)
ScanBack(str, sep, k) ==
    IF k = 0 THEN -1 ELSE IF str[k] = sep THEN k - 1 ELSE ScanBack(str, sep, k - 1)

\* strings.LastIndex: 0-based index of the last occurrence of sep, or -1
LastIndex(str, sep) == ScanBack(str, sep, Len(str))

RECURSIVE ScanForward(_, _, _)
ScanForward(str, sep, k) ==
    IF k > Len(str) THEN -1 ELSE IF str[k] = sep THEN k - 1 ELSE ScanForward(str, sep, k + 1)

\* strings.Index: 0-based index of the first occurrence of sep, or -1
Index(str, sep) == ScanForward(str, sep, 1)

\* strings.Split(s, sep) for a one-character separator
RECURSIVE Split(_, _)
Split(s, sep) ==
    The({ IF k < 0 THEN <<s>>
          ELSE <<SubSeq(s, 1, k)>> \o Split(SubSeq(s, k + 2, Len(s)), sep) :
          k \in {Index(s, sep)} })

\* Byte order of the tokens, for sort.Strings
Alphabet ==
    <<LF, " ", ".", ".git", "/", "0", "1", "1.xml", "2", "2.xml", "3", "4",
      "5", "6", "7", "8", "9", "A", "B", "C", "D", "E", "F", "HEAD", "Issues",
      "PublicKeys", "a", "b", "c", "c1", "d", "description.xml", "e", "f",
      "i1", "i2", "index", "index.backup", "index.sig", "index.sig.backup",
      "m1", "m2", "pk.pem", "x.xml",
      \* words of file contents, hashed like the rest
      "", "cred", "ecdsa", "iss", "junk", "key", "malformed", "pem", "rsa",
      "sig", "sm">>

CodeTable ==
    The({ [c \in Range(a) |-> CHOOSE k \in DOMAIN a : a[k] = c] : a \in {Alphabet} })

Code(c) == CodeTable[c]

RECURSIVE StrLess(_, _)
StrLess(a, b) ==
    IF a = <<>> THEN b # <<>>
    ELSE IF b = <<>> THEN FALSE
    ELSE IF Head(a) = Head(b) THEN StrLess(Tail(a), Tail(b))
    ELSE Code(Head(a)) < Code(Head(b))

\* sort.Strings of the keys of a map
RECURSIVE SortStrings(_)
SortStrings(S) ==
    IF S = {} THEN <<>>
    ELSE The({ <<m>> \o SortStrings(S \ {m}) :
               m \in {CHOOSE x \in S : \A y \in S \ {x} : StrLess(x, y)} })

(***************************************************************************)
(* encoding/hex.  A byte is a number 0..255, a hash a sequence of bytes.   *)
(***************************************************************************)
HexLower == <<"0", "1", "2", "3", "4", "5", "6", "7", "8", "9",
              "a", "b", "c", "d", "e", "f">>
HexUpper == <<"0", "1", "2", "3", "4", "5", "6", "7", "8", "9",
              "A", "B", "C", "D", "E", "F">>

HexTable ==
    The({ [c \in Range(lo) \cup Range(up) |->
              (CHOOSE k \in 1..16 : lo[k] = c \/ up[k] = c) - 1] :
          lo \in {HexLower}, up \in {HexUpper} })

IsHexChar(c) == c \in DOMAIN HexTable

HexValue(c) == HexTable[c]

\* hex.EncodeToString
RECURSIVE HexEncode(_)
HexEncode(bytes) ==
    IF bytes = <<>> THEN <<>>
    ELSE The({ <<lo[(Head(bytes) \div 16) + 1], lo[(Head(bytes) % 16) + 1]>> :
               lo \in {HexLower} })
         \o HexEncode(Tail(bytes))

RECURSIVE HexBytes(_)
HexBytes(s) ==
    IF Len(s) < 2 THEN <<>>
    ELSE The({ <<16 * t[s[1]] + t[s[2]]>> : t \in {HexTable} })
         \o HexBytes(SubSeq(s, 3, Len(s)))

\* hex.DecodeString: an odd length or a character that is no hex digit is an error
HexDecode(s) ==
    IF Len(s) % 2 = 0 /\ \A k \in 1..Len(s) : IsHexChar(s[k])
    THEN [ok |-> TRUE, bytes |-> HexBytes(s)]
    ELSE [ok |-> FALSE, bytes |-> <<>>]

(***************************************************************************)
(* Errors.  nil is NoErr; an error carries what the code puts in it.       *)
(***************************************************************************)
NoErr == [kind |-> "nil", line |-> -1]
Err(k) == [kind |-> k, line |-> -1]
ErrAt(k, j) == [kind |-> k, line |-> j]

(***************************************************************************)
(* SchemeManagerIndex: map[string]ConfigurationFileHash                    *)
(***************************************************************************)
EmptyIndex == [p \in {} |-> <<>>]

Put(i, path, hash) ==
    [p \in DOMAIN i \cup {path} |-> IF p = path THEN hash ELSE i[p]]

RECURSIVE StringLines(_, _)
StringLines(i, paths) ==
    IF paths = <<>> THEN <<>>
    ELSE HexEncode(i[Head(paths)]) \o <<" ">> \o Head(paths) \o <<LF>>
         \o StringLines(i, Tail(paths))

\* mutant of String: the separator between hash and path is left out
RECURSIVE StringNoSpaceLines(_, _)
StringNoSpaceLines(i, paths) ==
    IF paths = <<>> THEN <<>>
    ELSE HexEncode(i[Head(paths)]) \o Head(paths) \o <<LF>>
         \o StringNoSpaceLines(i, Tail(paths))

StringNoSpace(i) == StringNoSpaceLines(i, SortStrings(DOMAIN i))

\* SchemeManagerIndex.String
String(i) == StringLines(i, SortStrings(DOMAIN i))

\* the loop of FromString, at line j (0-based) of the split text
RECURSIVE FromStringLines(_, _, _)
FromStringLines(i, lines, j) ==
    IF lines = <<>> THEN [index |-> i, err |-> NoErr]
    ELSE LET line == Head(lines) IN
         IF Len(line) = 0 THEN FromStringLines(i, Tail(lines), j + 1)
         ELSE The({
                IF Len(parts) # 2
                THEN [index |-> i, err |-> ErrAt("IncorrectAmountOfParts", j)]
                ELSE The({
                       IF ~hash.ok
                       THEN [index |-> i, err |-> Err("hex")]
                       ELSE FromStringLines(Put(i, parts[2], hash.bytes),
                                            Tail(lines), j + 1) :
                       hash \in {HexDecode(parts[1])} }) :
                parts \in {Split(line, " ")} })

\* SchemeManagerIndex.FromString: the index is filled in place, so what was
\* read before a bad line stays in it
FromString(i, s) == FromStringLines(i, Split(s, LF), 0)

(***************************************************************************)
(* Paths.  Every path is relative to conf.Path, the root of the folder;    *)
(* the root itself is the empty string.                                    *)
(***************************************************************************)
\* filepath.Join(dir, name)
Join(dir, name) == IF dir = <<>> THEN <<name>> ELSE dir \o <<"/", name>>

\* filepath.Base
Base(path) == path[Len(path)]

\* filepath.Dir
Dir(path) == IF Len(path) <= 1 THEN <<>> ELSE SubSeq(path, 1, Len(path) - 2)

HasPrefixDir(path, dir) ==
    IF dir = <<>> THEN Len(path) >= 1
    ELSE /\ Len(path) > Len(dir) + 1
         /\ SubSeq(path, 1, Len(dir)) = dir
         /\ path[Len(dir) + 1] = "/"

\* fs.PathExists / os.Stat: a file, or a folder that holds one
PathExists(d, path) ==
    path \in DOMAIN d \/ \E q \in DOMAIN d : HasPrefixDir(q, path)

IsDir(d, path) == \E q \in DOMAIN d : HasPrefixDir(q, path)

\* filepath.Glob(dir + "/*"): the entries of dir, in lexical order
Glob(d, dir) ==
    SortStrings({ SubSeq(q, 1, IF dir = <<>> THEN 1 ELSE Len(dir) + 2) :
                    q \in {x \in DOMAIN d : HasPrefixDir(x, dir)} })

(***************************************************************************)
(* File contents.  A description carries what xml.Unmarshal reads from it; *)
(* junk is a file no parser accepts.                                       *)
(***************************************************************************)
Blob(t, a, b, c, v) == [t |-> t, a |-> a, b |-> b, c |-> c, v |-> v]

SMDesc(ver)               == Blob("sm", "", "", "", ver)
IssDesc(mgr, id, ver)     == Blob("iss", mgr, id, "", ver)
CredDesc(mgr, iss, id, ver) == Blob("cred", mgr, iss, id, ver)
KeyFile(n)                == Blob("key", "", "", "", n)
Junk                      == Blob("junk", "", "", "", 0)
Pem(alg, k)               == Blob("pem", alg, "", "", k)
Sig(ints)                 == [t |-> "sig", ints |-> ints]
IndexFile(s)              == [t |-> "index", s |-> s]

RECURSIVE Concat(_)
Concat(ss) == IF ss = <<>> THEN <<>> ELSE <<Len(Head(ss))>> \o Head(ss) \o Concat(Tail(ss))

\* sha256.Sum256: one-to-one on the contents of the model, and never the content
Sha256(c) ==
    The({ CASE c.t = "index" -> <<code["index"]>> \o [k \in 1..Len(c.s) |-> code[c.s[k]]]
            [] c.t = "sig"   -> <<code["sig"]>> \o Concat(c.ints)
            [] OTHER         -> <<code[c.t], code[c.a], code[c.b], code[c.c], c.v>> :
          code \in {CodeTable} })

\* ecdsa.Verify(pk, digest, r, s); a big integer is its sequence of bytes.
\* The signer with key k signs a digest as (k, digest).
Sign(k, digest) == << <<k>>, digest >>
EcdsaVerify(pk, digest, r, s) == r = <<pk>> /\ s = digest

(***************************************************************************)
(* The trees a scheme manager publishes, and the folders found on disk     *)
(***************************************************************************)
Managers    == {"m1", "m2"}
SigningKey(m) == IF m = "m1" THEN 1 ELSE 2
Other(m)    == IF m = "m1" THEN "m2" ELSE "m1"

MDesc(m)     == <<m, "/", "description.xml">>
MIndex(m)    == <<m, "/", "index">>
MSig(m)      == <<m, "/", "index.sig">>
MPk(m)       == <<m, "/", "pk.pem">>
IDesc(m, i)  == <<m, "/", i, "/", "description.xml">>
CDesc(m, i, c) == <<m, "/", i, "/", "Issues", "/", c, "/", "description.xml">>
KFile(m, i, f) == <<m, "/", i, "/", "PublicKeys", "/", f>>

With(f, p, c) == [q \in DOMAIN f \cup {p} |-> IF q = p THEN c ELSE f[q]]
Without(f, p) == [q \in DOMAIN f \ {p} |-> f[q]]
NoFiles       == [q \in {} |-> Junk]

Tree0(m) ==
    (MDesc(m) :> SMDesc(7)) @@ (IDesc(m, "i1") :> IssDesc(m, "i1", 4))
    @@ (CDesc(m, "i1", "c1") :> CredDesc(m, "i1", "c1", 4))
    @@ (KFile(m, "i1", "1.xml") :> KeyFile(1))
Tree1(m) == With(Tree0(m), KFile(m, "i1", "2.xml"), KeyFile(2))
Tree2(m) == With(Tree1(m), IDesc(m, "i1"), IssDesc(m, "i1", 5))
Tree3(m) == With(Tree2(m), CDesc(m, "i1", "c1"), CredDesc(m, "i1", "c1", 5))

IndexOf(files) == [p \in DOMAIN files |-> Sha256(files[p])]
IndexText(files) == IndexFile(String(IndexOf(files)))

\* the tree with its index and the signature of key k on it
Signed(m, files, k) ==
    The({ With(With(files, MIndex(m), index), MSig(m), Sig(Sign(k, Sha256(index)))) :
          index \in {IndexText(files)} })

Installed(m, files) == With(Signed(m, files, SigningKey(m)), MPk(m), Pem("ecdsa", SigningKey(m)))

BumpLast(bytes) == [bytes EXCEPT ![Len(bytes)] = (@ + 1) % 256]

LocalVariants ==
    {"absent", "good", "nodesc", "noindex", "badindex", "badhex", "badsig",
     "sigjunk", "sig1int", "sig3ints", "nosig", "nopk", "pkjunk", "pkrsa",
     "pkmalformed", "pkother", "tampered", "missingtracked", "untracked",
     "lowver", "isslowver", "credlowver", "issjunk", "descjunk",
     "descuntracked", "keyjunk", "foreign", "newer", "firstbad", "secondbad",
     "untrackedfirst", "secondkeyjunk"}

\* the folder of manager m as found on disk
LocalTree(m, v) ==
    LET good == Installed(m, Tree0(m))
        dig  == Sha256(good[MIndex(m)])
        k    == SigningKey(m)
    IN CASE v = "absent"  -> NoFiles
         [] v = "good"    -> good
         [] v = "newer"   -> Installed(m, Tree1(m))
         [] v = "nodesc"  -> Without(good, MDesc(m))
         [] v = "noindex" -> Without(good, MIndex(m))
         [] v = "badindex" ->
              With(good, MIndex(m),
                   IndexFile(good[MIndex(m)].s \o <<"a", "b", " ", "m1", " ", "m2", LF>>))
         [] v = "badhex"  ->
              With(good, MIndex(m),
                   IndexFile(good[MIndex(m)].s \o <<"a", " ", "m1", LF>>))
         [] v = "badsig"  -> With(good, MSig(m), Sig(<< <<k>>, BumpLast(dig) >>))
         [] v = "sigjunk" -> With(good, MSig(m), Junk)
         [] v = "sig1int" -> With(good, MSig(m), Sig(<< <<k>> >>))
         [] v = "sig3ints" -> With(good, MSig(m), Sig(<< <<k>>, dig, <<0>> >>))
         [] v = "nosig"   -> Without(good, MSig(m))
         [] v = "nopk"    -> Without(good, MPk(m))
         [] v = "pkjunk"  -> With(good, MPk(m), Junk)
         [] v = "pkrsa"   -> With(good, MPk(m), Pem("rsa", k))
         [] v = "pkmalformed" -> With(good, MPk(m), Pem("malformed", k))
         [] v = "pkother" -> With(good, MPk(m), Pem("ecdsa", k + 2))
         [] v = "tampered" -> With(good, IDesc(m, "i1"), IssDesc(m, "i1", 5))
         [] v = "missingtracked" -> Without(good, CDesc(m, "i1", "c1"))
         [] v = "untracked" ->
              With(With(good, KFile(m, "i1", "2.xml"), KeyFile(2)),
                   KFile(m, "i1", "x.xml"), KeyFile(3))
         [] v = "lowver"  -> Installed(m, With(Tree0(m), MDesc(m), SMDesc(6)))
         [] v = "isslowver" ->
              Installed(m, With(Tree0(m), IDesc(m, "i1"), IssDesc(m, "i1", 3)))
         [] v = "credlowver" ->
              Installed(m, With(Tree0(m), CDesc(m, "i1", "c1"), CredDesc(m, "i1", "c1", 3)))
         [] v = "issjunk" -> Installed(m, With(Tree0(m), IDesc(m, "i1"), Junk))
         [] v = "descjunk" -> Installed(m, With(Tree0(m), MDesc(m), Junk))
         [] v = "descuntracked" ->
              With(Installed(m, Without(Tree0(m), MDesc(m))), MDesc(m), SMDesc(7))
         [] v = "keyjunk" -> Installed(m, With(Tree0(m), KFile(m, "i1", "1.xml"), Junk))
         [] v = "foreign" ->
              Installed(m, With(Tree0(m), IDesc(m, "i1"), IssDesc(Other(m), "i1", 4)))
         [] v = "secondkeyjunk" ->
              Installed(m, With(Tree0(m), KFile(m, "i1", "2.xml"), Junk))
         [] v = "untrackedfirst" ->
              With(Installed(m, With(Without(Tree0(m), KFile(m, "i1", "1.xml")),
                                     KFile(m, "i1", "2.xml"), KeyFile(2))),
                   KFile(m, "i1", "1.xml"), KeyFile(1))
         [] v = "firstbad" ->
              Installed(m, With(With(Tree0(m), CDesc(m, "i1", "c1"), CredDesc(m, "i1", "c1", 3)),
                                IDesc(m, "i2"), IssDesc(m, "i2", 4)))
         [] v = "secondbad" ->
              Installed(m, With(Tree0(m), IDesc(m, "i2"), IssDesc(m, "i2", 3)))

RemoteKinds == {"r0", "r1", "r2", "stalesig", "unserved", "badindex", "down"}

\* what the server of manager m answers, by path
Served(m, kind) ==
    CASE kind = "r0" -> Signed(m, Tree0(m), SigningKey(m))
      [] kind = "r1" -> Signed(m, Tree1(m), SigningKey(m))
      [] kind = "r2" -> Signed(m, Tree2(m), SigningKey(m))
      [] kind = "r3" -> Signed(m, Tree3(m), SigningKey(m))
      [] kind = "stalesig" ->
           With(Signed(m, Tree1(m), SigningKey(m)), MSig(m),
                Signed(m, Tree0(m), SigningKey(m))[MSig(m)])
      [] kind = "unserved" ->
           Without(Signed(m, Tree1(m), SigningKey(m)), KFile(m, "i1", "2.xml"))
      [] kind = "badindex" ->
           LET bad == IndexFile(IndexText(Tree1(m)).s \o <<"a", " ", "m1", LF>>)
           IN  With(With(Tree1(m), MIndex(m), bad),
                    MSig(m), Sig(Sign(SigningKey(m), Sha256(bad))))
      [] kind = "down" -> NoFiles

GitFiles == (<<".git", "/", "HEAD">> :> Junk)

\* the union of two folders with no file in common
Merge(f, g) == [q \in DOMAIN f \cup DOMAIN g |-> IF q \in DOMAIN f THEN f[q] ELSE g[q]]

(***************************************************************************)
(* identifiers.go.  An identifier is a string; the typed wrappers add      *)
(* nothing to it.                                                          *)
(***************************************************************************)
\* what a slice expression with a negative bound does: a run-time panic
Panic == <<"panic">>

\* objectIdentifier.Parent
Parent(oi) ==
    LET i == LastIndex(oi, "/") IN
    IF i < 0 THEN Panic ELSE SubSeq(oi, 1, i)

\* objectIdentifier.Name
Name(oi) == SubSeq(oi, LastIndex(oi, "/") + 2, Len(oi))

\* IssuerIdentifier.SchemeManagerIdentifier
SchemeManagerIdentifier(id) == Parent(id)

\* CredentialTypeIdentifier.IssuerIdentifier
IssuerIdentifier(id) == Parent(id)

\* Issuer.Identifier and CredentialType.Identifier: the identifier of a parsed
\* description, manager + name (+ name), delimited as Parent expects
IssuerIdOf(desc) == <<desc.a, "/", desc.b>>
CredentialTypeIdOf(desc) == <<desc.a, "/", desc.b, "/", desc.c>>
\* Issuer.SchemeManagerIdentifier, CredentialType.SchemeManagerIdentifier
ManagerIdOf(desc) == <<desc.a>>

(***************************************************************************)
(* The Configuration                                                       *)
(***************************************************************************)
NoMap == [k \in {} |-> 0]

MapPut(f, k, v) == [x \in DOMAIN f \cup {k} |-> IF x = k THEN v ELSE f[x]]
MapDel(f, K)    == [x \in DOMAIN f \ K |-> f[x]]

\* NewSchemeManager(name)
NewSchemeManager(name) ==
    [ID |-> name, Status |-> "Unprocessed", Valid |-> FALSE,
     index |-> EmptyIndex, XMLVersion |-> 0, URL |-> <<>>]

\* Configuration.clear
clear(c) ==
    [c EXCEPT !.SchemeManagers = NoMap, !.Issuers = NoMap,
              !.CredentialTypes = NoMap, !.DisabledSchemeManagers = NoMap,
              !.publicKeys = NoMap, !.reverseHashes = NoMap]

\* NewConfiguration, with no assets
NewConfiguration ==
    [SchemeManagers |-> NoMap, Issuers |-> NoMap, CredentialTypes |-> NoMap,
     DisabledSchemeManagers |-> NoMap, publicKeys |-> NoMap,
     reverseHashes |-> NoMap, initialized |-> FALSE]

(***************************************************************************)
(* VerifySignature                                                         *)
(***************************************************************************)
Returns(valid, err) == [valid |-> valid, err |-> err, panic |-> FALSE]
Panics == [valid |-> FALSE, err |-> NoErr, panic |-> TRUE]

\* the body of VerifySignature, before its deferred function runs
VerifySignatureBody(d, id) ==
    IF ~({id \o <<"/", "index">>, id \o <<"/", "index.sig">>,
          id \o <<"/", "pk.pem">>} \subseteq DOMAIN d)
    THEN Returns(FALSE, Err("MissingIndexSignatureOrKey"))
    ELSE LET indexhash == Sha256(d[id \o <<"/", "index">>])
             pkbts     == d[id \o <<"/", "pk.pem">>]
             sig       == d[id \o <<"/", "index.sig">>]
             ints      == IF sig.t = "sig" THEN sig.ints ELSE <<>>
         IN  IF pkbts.t # "pem" THEN Panics          \* pkblk is nil
             ELSE IF pkbts.a = "malformed" THEN Returns(FALSE, Err("x509"))
             ELSE IF pkbts.a # "ecdsa" THEN Returns(FALSE, Err("InvalidPublicKey"))
             ELSE IF Len(ints) < 2 THEN Panics       \* ints[0], ints[1]
             ELSE Returns(EcdsaVerify(pkbts.v, indexhash, ints[1], ints[2]), NoErr)

\* the deferred function of VerifySignature
Recover(r) ==
    IF r.panic THEN [valid |-> FALSE, err |-> Err("FailedToVerify"), panic |-> FALSE]
    ELSE r

\* mutant of VerifySignature: no deferred recover
VerifySignatureNoRecover(d, id) == VerifySignatureBody(d, id)

\* Configuration.VerifySignature
VerifySignature(d, id) == Recover(VerifySignatureBody(d, id))

(***************************************************************************)
(* ReadAuthenticatedFile                                                   *)
(***************************************************************************)
NilBytes == Blob("nil", "", "", "", 0)

\* mutant of ReadAuthenticatedFile: the hash is not compared
ReadUnauthenticatedFile(d, index, path) ==
    IF path \notin DOMAIN index
    THEN [bts |-> NilBytes, found |-> FALSE, err |-> NoErr]
    ELSE IF path \notin DOMAIN d
    THEN [bts |-> NilBytes, found |-> TRUE, err |-> Err("ReadFile")]
    ELSE [bts |-> d[path], found |-> TRUE, err |-> NoErr]

\* mutant of ReadAuthenticatedFile: a path that is not in the index is an error
ReadAuthenticatedFileStrict(d, index, path) ==
    IF path \notin DOMAIN index
    THEN [bts |-> NilBytes, found |-> FALSE, err |-> Err("NotInIndex")]
    ELSE IF path \notin DOMAIN d
    THEN [bts |-> NilBytes, found |-> TRUE, err |-> Err("ReadFile")]
    ELSE IF Sha256(d[path]) # index[path]
    THEN [bts |-> NilBytes, found |-> TRUE, err |-> Err("HashMismatch")]
    ELSE [bts |-> d[path], found |-> TRUE, err |-> NoErr]

\* Configuration.ReadAuthenticatedFile(manager, path), index = manager.index
ReadAuthenticatedFile(d, index, path) ==
    IF path \notin DOMAIN index
    THEN [bts |-> NilBytes, found |-> FALSE, err |-> NoErr]
    ELSE IF path \notin DOMAIN d
    THEN [bts |-> NilBytes, found |-> TRUE, err |-> Err("ReadFile")]
    ELSE IF Sha256(d[path]) # index[path]
    THEN [bts |-> NilBytes, found |-> TRUE, err |-> Err("HashMismatch")]
    ELSE [bts |-> d[path], found |-> TRUE, err |-> NoErr]

(***************************************************************************)
(* parseIndex, VerifySchemeManager, pathToDescription                      *)
(***************************************************************************)
\* string(indexbts)
TextOf(c) == IF c.t = "index" THEN c.s ELSE <<c.t>>

\* Configuration.parseIndex
parseIndex(d, name) ==
    IF <<name, "/", "index">> \notin DOMAIN d
    THEN [index |-> EmptyIndex, err |-> Err("MissingIndex")]
    ELSE FromString(EmptyIndex, TextOf(d[<<name, "/", "index">>]))

\* mutant of VerifySchemeManager: the signature is not looked at
VerifySchemeManagerNoSignature(d, manager) ==
    IF \E file \in DOMAIN manager.index :
            PathExists(d, file) /\ ReadAuthenticatedFile(d, manager.index, file).err # NoErr
    THEN Err("HashMismatch")
    ELSE NoErr

\* Configuration.VerifySchemeManager; the error it returns, or NoErr
VerifySchemeManager(d, manager) ==
    The({ IF v.err # NoErr THEN v.err
          ELSE IF ~v.valid THEN Err("SignatureInvalid")
          ELSE IF \E file \in DOMAIN manager.index :
                       PathExists(d, file)
                       /\ ReadAuthenticatedFile(d, manager.index, file).err # NoErr
               THEN Err("HashMismatch")
               ELSE NoErr :
          v \in {VerifySignature(d, <<manager.ID>>)} })

\* Configuration.pathToDescription; kind is the type of the description
pathToDescription(d, manager, path, kind) ==
    IF ~PathExists(d, path)
    THEN [exists |-> FALSE, err |-> NoErr, desc |-> NilBytes]
    ELSE The({
           IF ~r.found THEN [exists |-> FALSE, err |-> NoErr, desc |-> NilBytes]
           ELSE IF r.err # NoErr THEN [exists |-> TRUE, err |-> r.err, desc |-> NilBytes]
           ELSE IF r.bts.t # kind
           THEN [exists |-> TRUE, err |-> Err("xml"), desc |-> NilBytes]
           ELSE [exists |-> TRUE, err |-> NoErr, desc |-> r.bts] :
           r \in {ReadAuthenticatedFile(d, manager.index, path)} })

(***************************************************************************)
(* ParseFolder                                                             *)
(***************************************************************************)
\* what a function returns next to the Configuration it worked on
Out(c, err) == [conf |-> c, err |-> err, panic |-> FALSE]
Crash(c)    == [conf |-> c, err |-> NoErr, panic |-> TRUE]

\* sha256.Sum256([]byte(credid.String())), cut to 16 bytes and base64-encoded
ReverseHashKey(credid) == [k \in 1..Len(credid) |-> Code(credid[k])]

\* Configuration.addReverseHash
addReverseHash(c, credid) ==
    [c EXCEPT !.reverseHashes = MapPut(@, ReverseHashKey(credid), credid)]

\* the handler of parseCredentialsFolder for one folder
CredentialHandler(c, d, mid, dir) ==
    The({
      IF pd.err # NoErr THEN Out(c, pd.err)
      ELSE IF ~pd.exists THEN Out(c, NoErr)
      ELSE IF pd.desc.v < 4 THEN Out(c, Err("UnsupportedCredentialType"))
      ELSE IF ManagerIdOf(pd.desc) \notin DOMAIN c.SchemeManagers
      THEN Crash(c)                         \* nil scheme manager
      ELSE LET cred == [ID |-> pd.desc.c, IssuerID |-> pd.desc.b,
                        SchemeManagerID |-> pd.desc.a, XMLVersion |-> pd.desc.v,
                        Valid |-> c.SchemeManagers[ManagerIdOf(pd.desc)].Valid]
               credid == CredentialTypeIdOf(pd.desc)
           IN  Out(addReverseHash(
                     [c EXCEPT !.CredentialTypes = MapPut(@, credid, cred)], credid),
                   NoErr) :
      pd \in {pathToDescription(d, c.SchemeManagers[mid],
                                Join(dir, "description.xml"), "cred")} })

\* iterateSubfolders with the handler of parseCredentialsFolder
RECURSIVE CredentialFolders(_, _, _, _)
CredentialFolders(c, d, mid, dirs) ==
    IF dirs = <<>> THEN Out(c, NoErr)
    ELSE IF ~IsDir(d, Head(dirs)) \/ Base(Head(dirs)) = ".git"
    THEN CredentialFolders(c, d, mid, Tail(dirs))
    ELSE The({ IF r.panic \/ r.err # NoErr THEN r
               ELSE CredentialFolders(r.conf, d, mid, Tail(dirs)) :
               r \in {CredentialHandler(c, d, mid, Head(dirs))} })

\* Configuration.parseCredentialsFolder
parseCredentialsFolder(c, d, mid, path) == CredentialFolders(c, d, mid, Glob(d, path))

\* mutant of IssuerHandler: the version of the description is not looked at
IssuerHandlerAnyVersion(c, d, mid, dir) ==
    The({
      IF pd.err # NoErr THEN Out(c, pd.err)
      ELSE IF ~pd.exists THEN Out(c, NoErr)
      ELSE LET issuer == [ID |-> pd.desc.b, SchemeManagerID |-> pd.desc.a,
                          XMLVersion |-> pd.desc.v, Valid |-> FALSE]
               issid  == IssuerIdOf(pd.desc)
               c1     == [c EXCEPT !.Issuers = MapPut(@, issid, issuer)]
           IN  IF ManagerIdOf(pd.desc) \notin DOMAIN c.SchemeManagers
               THEN Crash(c1)               \* nil scheme manager
               ELSE parseCredentialsFolder(
                      [c1 EXCEPT !.Issuers[issid].Valid =
                                    c.SchemeManagers[ManagerIdOf(pd.desc)].Valid],
                      d, mid, Join(dir, "Issues")) :
      pd \in {pathToDescription(d, c.SchemeManagers[mid],
                                Join(dir, "description.xml"), "iss")} })

\* the handler of parseIssuerFolders for one folder
IssuerHandler(c, d, mid, dir) ==
    The({
      IF pd.err # NoErr THEN Out(c, pd.err)
      ELSE IF ~pd.exists THEN Out(c, NoErr)
      ELSE IF pd.desc.v < 4 THEN Out(c, Err("UnsupportedIssuer"))
      ELSE LET issuer == [ID |-> pd.desc.b, SchemeManagerID |-> pd.desc.a,
                          XMLVersion |-> pd.desc.v, Valid |-> FALSE]
               issid  == IssuerIdOf(pd.desc)
               c1     == [c EXCEPT !.Issuers = MapPut(@, issid, issuer)]
           IN  IF ManagerIdOf(pd.desc) \notin DOMAIN c.SchemeManagers
               THEN Crash(c1)               \* nil scheme manager
               ELSE parseCredentialsFolder(
                      [c1 EXCEPT !.Issuers[issid].Valid =
                                    c.SchemeManagers[ManagerIdOf(pd.desc)].Valid],
                      d, mid, Join(dir, "Issues")) :
      pd \in {pathToDescription(d, c.SchemeManagers[mid],
                                Join(dir, "description.xml"), "iss")} })

\* mutant of IssuerFolders: after a failing folder the others are still processed
RECURSIVE IssuerFoldersKeepGoing(_, _, _, _)
IssuerFoldersKeepGoing(c, d, mid, dirs) ==
    IF dirs = <<>> THEN Out(c, NoErr)
    ELSE IF ~IsDir(d, Head(dirs)) \/ Base(Head(dirs)) = ".git"
    THEN IssuerFoldersKeepGoing(c, d, mid, Tail(dirs))
    ELSE The({ IF r.panic THEN r
               ELSE The({ IF r.err # NoErr THEN [n EXCEPT !.err = r.err] ELSE n :
                          n \in {IssuerFoldersKeepGoing(r.conf, d, mid, Tail(dirs))} }) :
               r \in {IssuerHandler(c, d, mid, Head(dirs))} })

\* iterateSubfolders with the handler of parseIssuerFolders
RECURSIVE IssuerFolders(_, _, _, _)
IssuerFolders(c, d, mid, dirs) ==
    IF dirs = <<>> THEN Out(c, NoErr)
    ELSE IF ~IsDir(d, Head(dirs)) \/ Base(Head(dirs)) = ".git"
    THEN IssuerFolders(c, d, mid, Tail(dirs))
    ELSE The({ IF r.panic \/ r.err # NoErr THEN r
               ELSE IssuerFolders(r.conf, d, mid, Tail(dirs)) :
               r \in {IssuerHandler(c, d, mid, Head(dirs))} })

\* Configuration.parseIssuerFolders
parseIssuerFolders(c, d, mid, path) == IssuerFolders(c, d, mid, Glob(d, path))

\* mutant of SchemeManagerError: the error does not carry the manager's status
SchemeManagerErrorNoStatus(manager, err) ==
    [Manager |-> <<manager.ID>>, Status |-> "Unprocessed", Err |-> err]

\* the deferred function of ParseSchemeManagerFolder
SchemeManagerError(manager, err) ==
    [Manager |-> <<manager.ID>>, Status |-> manager.Status, Err |-> err]

\* the manager is in the map by reference: what the function writes to it shows there
Leave(c, manager, err) ==
    Out([c EXCEPT !.SchemeManagers = MapPut(@, <<manager.ID>>, manager)],
        IF err = NoErr THEN NoErr ELSE SchemeManagerError(manager, err))

\* Configuration.ParseSchemeManagerFolder(dir, manager), name = filepath.Base(dir)
ParseSchemeManagerFolder(c, d, name) ==
    LET mid == <<name>>
        m0  == NewSchemeManager(name)
        c0  == [c EXCEPT !.SchemeManagers = MapPut(@, mid, m0)]
    IN  IF ~PathExists(d, Join(mid, "description.xml"))
        THEN Leave(c0, m0, Err("PathDoesNotExist"))
        ELSE The({ LET m1 == [m0 EXCEPT !.index = pi.index] IN
             IF pi.err # NoErr
             THEN Leave(c0, [m1 EXCEPT !.Status = "InvalidIndex"], pi.err)
             ELSE The({
             IF ve # NoErr
             THEN Leave(c0, [m1 EXCEPT !.Status = "InvalidSignature"], ve)
             ELSE The({
             IF ~pd.exists
             THEN Leave(c0, [m1 EXCEPT !.Status = "ParsingError"], Err("DescriptionNotFound"))
             ELSE IF pd.err # NoErr
             THEN Leave(c0, [m1 EXCEPT !.Status = "ParsingError"], pd.err)
             ELSE LET m2 == [m1 EXCEPT !.XMLVersion = pd.desc.v, !.URL = mid] IN
             IF m2.XMLVersion < 7
             THEN Leave(c0, [m2 EXCEPT !.Status = "ParsingError"], Err("UnsupportedSchemeManager"))
             ELSE The({
                  IF pf.panic THEN pf
                  ELSE IF pf.err # NoErr
                  THEN Leave(pf.conf, [m2 EXCEPT !.Status = "ContentParsingError"], pf.err)
                  ELSE Leave(pf.conf, [m2 EXCEPT !.Status = "Valid", !.Valid = TRUE], NoErr) :
                  pf \in {parseIssuerFolders(
                             [c0 EXCEPT !.SchemeManagers = MapPut(@, mid, m2)],
                             d, mid, mid)} }) :
             pd \in {pathToDescription(d, m1, Join(mid, "description.xml"), "sm")} }) :
             ve \in {VerifySchemeManager(d, m1)} }) :
             pi \in {parseIndex(d, name)} })

\* iterateSubfolders with the handler of ParseFolder; mgrerr is the last
\* SchemeManagerError seen
RECURSIVE ManagerFolders(_, _, _, _)
ManagerFolders(c, d, dirs, mgrerr) ==
    IF dirs = <<>> THEN Out(c, mgrerr)
    ELSE IF ~IsDir(d, Head(dirs)) \/ Base(Head(dirs)) = ".git"
    THEN ManagerFolders(c, d, Tail(dirs), mgrerr)
    ELSE The({
           IF r.panic THEN r
           ELSE IF r.err = NoErr THEN ManagerFolders(r.conf, d, Tail(dirs), mgrerr)
           ELSE ManagerFolders(
                  [r.conf EXCEPT !.DisabledSchemeManagers = MapPut(@, r.err.Manager, r.err)],
                  d, Tail(dirs), r.err) :
           r \in {ParseSchemeManagerFolder(c, d, Base(Head(dirs)))} })

\* mutant of ParseFolder: the folders of the managers that the last parse
\* disabled are not looked at again
ParseFolderSkipDisabled(c, d) ==
    The({ IF r.panic THEN r
          ELSE Out([r.conf EXCEPT !.initialized = TRUE], r.err) :
          r \in {ManagerFolders(
                   clear(c),
                   [q \in {x \in DOMAIN d : <<Head(x)>> \notin DOMAIN c.DisabledSchemeManagers}
                      |-> d[q]],
                   Glob(d, <<>>), NoErr)} })

\* Configuration.ParseFolder
ParseFolder(c, d) ==
    The({ IF r.panic THEN r
          ELSE Out([r.conf EXCEPT !.initialized = TRUE], r.err) :
          r \in {ManagerFolders(clear(c), d, Glob(d, <<>>), NoErr)} })

(***************************************************************************)
(* PublicKey                                                               *)
(***************************************************************************)
NilKey == [Issuer |-> <<>>, n |-> -1]
NilManager == [ID |-> "", Status |-> "nil", Valid |-> FALSE,
               index |-> EmptyIndex, XMLVersion |-> 0, URL |-> <<>>]

\* strconv.Atoi(filename[:len(filename)-4])
Atoi(filename) ==
    CASE filename = "1.xml" -> [ok |-> TRUE, i |-> 1]
      [] filename = "2.xml" -> [ok |-> TRUE, i |-> 2]
      [] OTHER -> [ok |-> FALSE, i |-> 0]

\* the loop of parseKeysFolder
RECURSIVE KeyFiles(_, _, _, _, _)
KeyFiles(c, d, manager, issuerid, files) ==
    IF files = <<>> THEN Out(c, NoErr)
    ELSE LET file == Head(files)
             n    == Atoi(Base(file))
         IN  IF ~n.ok THEN KeyFiles(c, d, manager, issuerid, Tail(files))
             ELSE IF manager = NilManager THEN Crash(c)      \* manager.index
             ELSE The({
                    IF r.err # NoErr \/ ~r.found THEN Out(c, r.err)
                    ELSE IF r.bts.t # "key" THEN Out(c, Err("NewPublicKeyFromBytes"))
                    ELSE KeyFiles(
                           [c EXCEPT !.publicKeys[issuerid] =
                                MapPut(@, n.i, [Issuer |-> issuerid, n |-> r.bts.v])],
                           d, manager, issuerid, Tail(files)) :
                    r \in {ReadAuthenticatedFile(d, manager.index, file)} })

\* Configuration.parseKeysFolder
parseKeysFolder(c, d, manager, issuerid) ==
    IF SchemeManagerIdentifier(issuerid) = Panic THEN Crash(c)
    ELSE KeyFiles(c, d, manager, issuerid,
                  Glob(d, Name(SchemeManagerIdentifier(issuerid)) \o <<"/">>
                          \o Name(issuerid) \o <<"/", "PublicKeys">>))

Lookup(c, id, counter) ==
    IF counter \in DOMAIN c.publicKeys[id] THEN c.publicKeys[id][counter] ELSE NilKey

\* mutant of PublicKey: a cache entry is made only when the keys were read
PublicKeyRetry(c, d, id, counter) ==
    IF id \in DOMAIN c.publicKeys
    THEN [conf |-> c, key |-> Lookup(c, id, counter), err |-> NoErr, panic |-> FALSE]
    ELSE LET c1 == [c EXCEPT !.publicKeys = MapPut(@, id, NoMap)] IN
         IF SchemeManagerIdentifier(id) = Panic
         THEN [conf |-> c1, key |-> NilKey, err |-> NoErr, panic |-> TRUE]
         ELSE The({
                IF r.panic \/ r.err # NoErr
                THEN [conf |-> c, key |-> NilKey, err |-> r.err, panic |-> r.panic]
                ELSE [conf |-> r.conf, key |-> Lookup(r.conf, id, counter),
                      err |-> NoErr, panic |-> FALSE] :
                r \in {parseKeysFolder(
                         c1, d,
                         IF SchemeManagerIdentifier(id) \in DOMAIN c.SchemeManagers
                         THEN c.SchemeManagers[SchemeManagerIdentifier(id)]
                         ELSE NilManager,
                         id)} })

\* Configuration.PublicKey
PublicKey(c, d, id, counter) ==
    IF id \in DOMAIN c.publicKeys
    THEN [conf |-> c, key |-> Lookup(c, id, counter), err |-> NoErr, panic |-> FALSE]
    ELSE LET c1 == [c EXCEPT !.publicKeys = MapPut(@, id, NoMap)] IN
         IF SchemeManagerIdentifier(id) = Panic
         THEN [conf |-> c1, key |-> NilKey, err |-> NoErr, panic |-> TRUE]
         ELSE The({
                IF r.panic \/ r.err # NoErr
                THEN [conf |-> r.conf, key |-> NilKey, err |-> r.err, panic |-> r.panic]
                ELSE [conf |-> r.conf, key |-> Lookup(r.conf, id, counter),
                      err |-> NoErr, panic |-> FALSE] :
                r \in {parseKeysFolder(
                         c1, d,
                         IF SchemeManagerIdentifier(id) \in DOMAIN c.SchemeManagers
                         THEN c.SchemeManagers[SchemeManagerIdentifier(id)]
                         ELSE NilManager,
                         id)} })

(***************************************************************************)
(* Prune                                                                   *)
(***************************************************************************)
\* credid.IssuerIdentifier().SchemeManagerIdentifier()
ManagerOfCredential(credid) ==
    IF IssuerIdentifier(credid) = Panic THEN Panic
    ELSE SchemeManagerIdentifier(IssuerIdentifier(credid))

\* mutant of RemoveSchemeManager: only the manager is deleted
RemoveSchemeManagerOnly(c, id) ==
    Out([c EXCEPT !.SchemeManagers = MapDel(@, {id})], NoErr)

\* Configuration.RemoveSchemeManager(id, false)
RemoveSchemeManager(c, id) ==
    IF \/ \E x \in DOMAIN c.CredentialTypes : ManagerOfCredential(x) = Panic
       \/ \E x \in DOMAIN c.Issuers : SchemeManagerIdentifier(x) = Panic
       \/ \E x \in DOMAIN c.publicKeys : SchemeManagerIdentifier(x) = Panic
    THEN Crash(c)
    ELSE Out([c EXCEPT
                !.CredentialTypes = MapDel(@, {x \in DOMAIN @ : ManagerOfCredential(x) = id}),
                !.Issuers = MapDel(@, {x \in DOMAIN @ : SchemeManagerIdentifier(x) = id}),
                !.publicKeys = MapDel(@, {x \in DOMAIN @ : SchemeManagerIdentifier(x) = id}),
                !.SchemeManagers = MapDel(@, {id})],
             NoErr)

\* the loop of Prune over the managers still to visit
RECURSIVE PruneLoop(_, _)
PruneLoop(c, ids) ==
    IF ids = {} THEN Out(c, NoErr)
    ELSE LET id == CHOOSE x \in ids : TRUE IN
         IF c.SchemeManagers[id].Valid THEN PruneLoop(c, ids \ {id})
         ELSE The({ IF r.panic THEN r ELSE PruneLoop(r.conf, ids \ {id}) :
                    r \in {RemoveSchemeManager(c, id)} })

\* Configuration.Prune
Prune(c) == PruneLoop(c, DOMAIN c.SchemeManagers)

(***************************************************************************)
(* The transport and the copies of the file system                         *)
(***************************************************************************)
\* NewHTTPTransport(url).GetFile(path, dest): the file is written when the
\* server answers with it; otherwise an error, and dest is as it was.  A
\* manager whose description was never read has the empty URL.  rem is what
\* the server of each manager answers, by path.
GetFile(d, rem, url, path, dest) ==
    IF url = <<>> THEN [disk |-> d, err |-> Err("transport")]
    ELSE LET p == url \o <<"/">> \o path
         IN  IF p \in DOMAIN rem[url[1]]
             THEN [disk |-> With(d, dest, rem[url[1]][p]), err |-> NoErr]
             ELSE [disk |-> d, err |-> Err("transport")]

\* fs.Copy(src, dest)
Copy(d, src, dest) ==
    IF src \in DOMAIN d
    THEN [disk |-> With(d, dest, d[src]), err |-> NoErr]
    ELSE [disk |-> d, err |-> Err("copy")]

\* path + ".backup", for index and index.sig
Backup(path) ==
    [path EXCEPT ![Len(path)] = IF @ = "index" THEN "index.backup"
                                ELSE "index.sig.backup"]

\* Configuration.backupManagerSignature
backupManagerSignature(d, index, sig) ==
    The({ IF a.err # NoErr THEN a ELSE Copy(a.disk, sig, Backup(sig)) :
          a \in {Copy(d, index, Backup(index))} })

\* mutant of restoreManagerSignature: only the signature is put back
restoreSignatureOnly(d, index, sig) == Copy(d, Backup(sig), sig)

\* Configuration.restoreManagerSignature
restoreManagerSignature(d, index, sig) ==
    The({ IF a.err # NoErr THEN a ELSE Copy(a.disk, Backup(sig), sig) :
          a \in {Copy(d, Backup(index), index)} })

\* what DownloadSchemeManagerSignature does before its deferred function:
\* the folder, the error and the number of transport calls
DownloadSignatureBody(d, rem, manager) ==
    LET index == MIndex(manager.ID)
        sig   == MSig(manager.ID)
    IN  The({
        IF b.err # NoErr
        THEN [disk |-> b.disk, err |-> b.err, calls |-> 0, deferred |-> FALSE]
        ELSE The({
             IF g1.err # NoErr
             THEN [disk |-> g1.disk, err |-> g1.err, calls |-> 1, deferred |-> TRUE]
             ELSE The({
             IF g2.err # NoErr
             THEN [disk |-> g2.disk, err |-> g2.err, calls |-> 2, deferred |-> TRUE]
             ELSE The({
                  [disk |-> g2.disk, calls |-> 2, deferred |-> TRUE,
                   err |-> IF v.err # NoErr THEN v.err
                           ELSE IF ~v.valid THEN Err("SignatureInvalid")
                           ELSE NoErr] :
                  v \in {VerifySignature(g2.disk, <<manager.ID>>)} }) :
             g2 \in {GetFile(g1.disk, rem, manager.URL, <<"index.sig">>, sig)} }) :
             g1 \in {GetFile(b.disk, rem, manager.URL, <<"index">>, index)} }) :
        b \in {backupManagerSignature(d, index, sig)} })

\* Configuration.DownloadSchemeManagerSignature
DownloadSchemeManagerSignature(d, rem, manager) ==
    The({ IF r.deferred /\ r.err # NoErr
          THEN [r EXCEPT !.disk = restoreManagerSignature(r.disk, MIndex(manager.ID),
                                                          MSig(manager.ID)).disk]
          ELSE r :
          r \in {DownloadSignatureBody(d, rem, manager)} })

(***************************************************************************)
(* UpdateSchemeManager                                                     *)
(***************************************************************************)
\* an IrmaIdentifierSet as Download makes it; a nil pointer is NilSet
NewSet == [nil |-> FALSE, SchemeManagers |-> {}, Issuers |-> {}, CredentialTypes |-> {}]
NilSet == [nil |-> TRUE, SchemeManagers |-> {}, Issuers |-> {}, CredentialTypes |-> {}]

\* IrmaIdentifierSet.Empty
Empty(set) == set.SchemeManagers = {} /\ set.Issuers = {} /\ set.CredentialTypes = {}

Max(S) == CHOOSE x \in S : \A y \in S : y <= x

\* issPattern.FindStringSubmatch(filename), "(.+)/(.+)/description\.xml":
\* the two groups, the first as long as it can be, or <<>> when no match
issPattern(filename) ==
    LET n  == Len(filename)
        ks == {k \in 5..n : filename[k] = "description.xml" /\ filename[k - 1] = "/"}
        js == {j \in 2..n : filename[j] = "/" /\ \E k \in ks : j + 1 <= k - 2}
    IN  IF js = {} THEN <<>>
        ELSE LET j == Max(js)
                 k == Max({x \in ks : j + 1 <= x - 2})
             IN  <<SubSeq(filename, 1, j - 1), SubSeq(filename, j + 1, k - 2)>>

\* credPattern.FindStringSubmatch(filename),
\* "(.+)/(.+)/Issues/(.+)/description\.xml": the three groups, or <<>>
credPattern(filename) ==
    LET n  == Len(filename)
        ks == {k \in 9..n : filename[k] = "description.xml" /\ filename[k - 1] = "/"}
        qs == {q \in 5..n : /\ filename[q] = "Issues" /\ filename[q - 1] = "/"
                            /\ q + 1 <= n /\ filename[q + 1] = "/"
                            /\ \E k \in ks : q + 2 <= k - 2}
        js == {j \in 2..n : filename[j] = "/" /\ \E q \in qs : j + 1 <= q - 2}
    IN  IF js = {} THEN <<>>
        ELSE LET j == Max(js)
                 q == Max({x \in qs : j + 1 <= x - 2})
                 k == Max({x \in ks : q + 2 <= x - 2})
             IN  <<SubSeq(filename, 1, j - 1), SubSeq(filename, j + 1, q - 2),
                   SubSeq(filename, q + 2, k - 2)>>

\* the identifiers that UpdateSchemeManager puts in the set for one file
IssuersOf(filename) ==
    LET m == issPattern(filename) IN
    IF m = <<>> THEN {} ELSE {m[1] \o <<".">> \o m[2]}

CredentialTypesOf(filename) ==
    LET m == credPattern(filename) IN
    IF m = <<>> THEN {} ELSE {m[1] \o <<".">> \o m[2] \o <<".">> \o m[3]}

\* the set after the files of S were downloaded
Recorded(downloaded, S) ==
    IF downloaded.nil THEN downloaded
    ELSE [downloaded EXCEPT
            !.Issuers = @ \cup UNION {IssuersOf(f) : f \in S},
            !.CredentialTypes = @ \cup UNION {CredentialTypesOf(f) : f \in S}]

\* filename[len(manager.ID)+1:]; every name of a manager is one token
Stripped(filename) == SubSeq(filename, 3, Len(filename))

\* the folder after transport.GetFile for every file of S
RECURSIVE FetchAll(_, _, _, _)
FetchAll(d, rem, url, S) ==
    IF S = {} THEN d
    ELSE LET f == CHOOSE x \in S : TRUE IN
         FetchAll(GetFile(d, rem, url, Stripped(f), f).disk, rem, url, S \ {f})

\* mutant of Updated: the folder is parsed again before the call returns
UpdatedAndParsed(c, d, delta, err, calls) ==
    [conf |-> ParseFolder(c, d).conf, disk |-> d, delta |-> delta, err |-> err,
     calls |-> calls, fetched |-> {}, panic |-> FALSE]

\* what UpdateSchemeManager returns: the Configuration, the folder, the set,
\* the error, the number of transport calls it made, and the files of the
\* index that it downloaded
Updated(c, d, delta, err, calls) ==
    [conf |-> c, disk |-> d, delta |-> delta, err |-> err, calls |-> calls,
     fetched |-> {}, panic |-> FALSE]

\* mutant of UpdateFiles: a file the old index has with the same hash is
\* skipped whether it is on disk or not
UpdateFilesKnownOnly(c, d, rem, manager, newIndex, downloaded, calls) ==
    LET id   == <<manager.ID>>
        todo == {f \in DOMAIN newIndex :
                    ~(/\ f \in DOMAIN manager.index
                      /\ manager.index[f] = newIndex[f])}
        short == {f \in todo : Len(f) < 2}
        good == {f \in todo \ short :
                    GetFile(d, rem, manager.URL, Stripped(f), f).err = NoErr}
        bad  == todo \ (good \cup short)
    IN  IF bad = {} /\ short = {}
        THEN {[Updated([c EXCEPT !.SchemeManagers[id].index = newIndex],
                       FetchAll(d, rem, manager.URL, good),
                       Recorded(downloaded, good), NoErr,
                       calls + Cardinality(good))
                  EXCEPT !.fetched = good]}
        ELSE {[Updated(c, FetchAll(d, rem, manager.URL, S),
                       Recorded(downloaded, S),
                       IF b \in short THEN NoErr ELSE Err("transport"),
                       calls + Cardinality(S) + (IF b \in short THEN 0 ELSE 1))
                  EXCEPT !.panic = b \in short, !.fetched = S] :
                 S \in SUBSET good, b \in bad \cup short}

\* mutant of UpdateFiles: the index is replaced before the files are fetched
UpdateFilesEager(c, d, rem, manager, newIndex, downloaded, calls) ==
    LET id   == <<manager.ID>>
        todo == {f \in DOMAIN newIndex :
                    ~(/\ f \in DOMAIN manager.index
                      /\ PathExists(d, f)
                      /\ manager.index[f] = newIndex[f])}
        short == {f \in todo : Len(f) < 2}
        good == {f \in todo \ short :
                    GetFile(d, rem, manager.URL, Stripped(f), f).err = NoErr}
        bad  == todo \ (good \cup short)
    IN  IF bad = {} /\ short = {}
        THEN {[Updated([c EXCEPT !.SchemeManagers[id].index = newIndex],
                       FetchAll(d, rem, manager.URL, good),
                       Recorded(downloaded, good), NoErr,
                       calls + Cardinality(good))
                  EXCEPT !.fetched = good]}
        ELSE {[Updated([c EXCEPT !.SchemeManagers[id].index = newIndex],
                       FetchAll(d, rem, manager.URL, S),
                       Recorded(downloaded, S),
                       IF b \in short THEN NoErr ELSE Err("transport"),
                       calls + Cardinality(S) + (IF b \in short THEN 0 ELSE 1))
                  EXCEPT !.panic = b \in short, !.fetched = S] :
                 S \in SUBSET good, b \in bad \cup short}

\* the loop of UpdateSchemeManager over newIndex: a file is skipped when the
\* old index has it with the same hash and it is on disk.  The map is walked
\* in any order, which shows when a download fails: any of the other files
\* may have been downloaded before.  The result is the set of outcomes.
UpdateFiles(c, d, rem, manager, newIndex, downloaded, calls) ==
    LET id   == <<manager.ID>>
        todo == {f \in DOMAIN newIndex :
                    ~(/\ f \in DOMAIN manager.index
                      /\ PathExists(d, f)
                      /\ manager.index[f] = newIndex[f])}
        short == {f \in todo : Len(f) < 2}
        good == {f \in todo \ short :
                    GetFile(d, rem, manager.URL, Stripped(f), f).err = NoErr}
        bad  == todo \ (good \cup short)
    IN  IF bad = {} /\ short = {}
        THEN {[Updated([c EXCEPT !.SchemeManagers[id].index = newIndex],
                       FetchAll(d, rem, manager.URL, good),
                       Recorded(downloaded, good), NoErr,
                       calls + Cardinality(good))
                  EXCEPT !.fetched = good]}
        ELSE {[Updated(c, FetchAll(d, rem, manager.URL, S),
                       Recorded(downloaded, S),
                       IF b \in short THEN NoErr ELSE Err("transport"),
                       calls + Cardinality(S) + (IF b \in short THEN 0 ELSE 1))
                  EXCEPT !.panic = b \in short, !.fetched = S] :
                 S \in SUBSET good, b \in bad \cup short}

\* Configuration.UpdateSchemeManager(id, downloaded): the set of its outcomes
UpdateSchemeManager(c, d, rem, id, downloaded) ==
    IF id \notin DOMAIN c.SchemeManagers
    THEN {Updated(c, d, downloaded, Err("UnknownSchemeManager"), 0)}
    ELSE LET manager == c.SchemeManagers[id] IN
         The({
           IF s.err # NoErr
           THEN {Updated(c, s.disk, downloaded, s.err, s.calls)}
           ELSE The({
                  IF pi.err # NoErr
                  THEN {Updated(c, s.disk, downloaded, pi.err, s.calls)}
                  ELSE UpdateFiles(c, s.disk, rem, manager, pi.index,
                                   downloaded, s.calls) :
                  pi \in {parseIndex(s.disk, manager.ID)} }) :
           s \in {DownloadSchemeManagerSignature(d, rem, manager)} })

(***************************************************************************)
(* Download                                                                *)
(***************************************************************************)
\* the orders in which range can walk a map with the keys of S
Perms(S) ==
    {s \in [1..Cardinality(S) -> S] : \A i, j \in DOMAIN s : s[i] = s[j] => i = j}

\* mutant of IssuerMissing: every wanted issuer counts as missing
IssuerMissingAlways(c, issid) == TRUE

\* _, contains := conf.Issuers[issid]; !contains
IssuerMissing(c, issid) == issid \notin DOMAIN c.Issuers

\* mutant of CredentialMissing: no wanted credential type counts as missing
CredentialMissingNever(c, credid) == FALSE

\* _, contains := conf.CredentialTypes[credid]; !contains
CredentialMissing(c, credid) == credid \notin DOMAIN c.CredentialTypes

\* the lookups of Download for the key counters of one issuer
RECURSIVE LookupKeys(_, _, _, _, _)
LookupKeys(c, d, issid, keyids, managers) ==
    IF keyids = <<>>
    THEN [conf |-> c, managers |-> managers, err |-> NoErr, panic |-> FALSE]
    ELSE The({
           IF r.panic \/ r.err # NoErr
           THEN [conf |-> r.conf, managers |-> managers, err |-> r.err, panic |-> r.panic]
           ELSE LookupKeys(r.conf, d, issid, Tail(keyids),
                           IF r.key = NilKey
                           THEN managers \cup {SchemeManagerIdentifier(issid)}
                           ELSE managers) :
           r \in {PublicKey(c, d, issid, Head(keyids))} })

\* the loop of Download over set.PublicKeys, walked in the given order
RECURSIVE KeysLoop(_, _, _, _, _)
KeysLoop(c, d, set, order, managers) ==
    IF order = <<>>
    THEN [conf |-> c, managers |-> managers, err |-> NoErr, panic |-> FALSE]
    ELSE The({ IF r.panic \/ r.err # NoErr THEN r
               ELSE KeysLoop(r.conf, d, set, Tail(order), r.managers) :
               r \in {LookupKeys(c, d, Head(order), set.PublicKeys[Head(order)],
                                 managers)} })

\* what Download returns, and what it did: the managers it called
\* UpdateSchemeManager for, the transport calls made, whether ParseFolder ran
Downloaded(c, d, delta, err, updated, calls, parsed) ==
    [conf |-> c, disk |-> d, delta |-> delta, err |-> err, updated |-> updated,
     calls |-> calls, parsed |-> parsed, panic |-> FALSE]

\* the loop of Download over managers, walked in the given order; it ends at
\* the first UpdateSchemeManager that fails
RECURSIVE UpdateLoop(_, _, _)
UpdateLoop(st, rem, order) ==
    IF order = <<>> THEN {st}
    ELSE UNION {
           LET st1 == [Downloaded(u.conf, u.disk, u.delta, u.err,
                                  st.updated \cup {Head(order)},
                                  st.calls + u.calls, FALSE)
                         EXCEPT !.panic = u.panic]
           IN  IF u.panic \/ u.err # NoErr THEN {st1}
               ELSE UpdateLoop(st1, rem, Tail(order)) :
           u \in UpdateSchemeManager(st.conf, st.disk, rem, Head(order), st.delta)}

\* the end of Download: ParseFolder when something was downloaded
Finish(st) ==
    IF st.panic \/ st.err # NoErr \/ Empty(st.delta) THEN st
    ELSE The({ [st EXCEPT !.conf = r.conf, !.err = r.err, !.panic = r.panic,
                          !.parsed = TRUE] :
               r \in {ParseFolder(st.conf, st.disk)} })

\* Configuration.Download(set): the set of its outcomes
Download(c, d, rem, set) ==
    LET fromIssuers == {issid \in set.Issuers : IssuerMissing(c, issid)}
        fromCreds   == {credid \in set.CredentialTypes : CredentialMissing(c, credid)}
        crash       == [Downloaded(c, d, NilSet, NoErr, {}, 0, FALSE)
                          EXCEPT !.panic = TRUE]
    IN  IF \E issid \in fromIssuers : SchemeManagerIdentifier(issid) = Panic
        THEN {crash}
        ELSE UNION {
          IF k.panic THEN {[crash EXCEPT !.conf = k.conf]}
          ELSE IF k.err # NoErr
          THEN {Downloaded(k.conf, d, NilSet, k.err, {}, 0, FALSE)}
          ELSE IF \E credid \in fromCreds : ManagerOfCredential(credid) = Panic
          THEN {[crash EXCEPT !.conf = k.conf]}
          ELSE LET managers == k.managers \cup
                               {ManagerOfCredential(credid) : credid \in fromCreds}
                   st0 == Downloaded(k.conf, d, NewSet, NoErr, {}, 0, FALSE)
               IN  UNION {{Finish(st) : st \in UpdateLoop(st0, rem, mo)} :
                          mo \in Perms(managers)} :
          k \in {KeysLoop(c, d, set, order,
                          {SchemeManagerIdentifier(issid) : issid \in fromIssuers}) :
                 order \in Perms(DOMAIN set.PublicKeys)}}

(***************************************************************************)
(* The calls, as actions.  ret keeps what the call returned.               *)
(***************************************************************************)
IssuerIds == {<<m, "/", "i1">> : m \in Managers}
Counters  == {1, 2}

\* ReadAuthenticatedFile and VerifySignature change neither the Configuration
\* nor the folder: whatever can follow such a call can follow the state it was
\* made in, and is modelled from there.
ReadOnlyCalls == {"ReadAuthenticatedFile", "VerifySignature"}
Returned == ~crashed /\ ret.op \notin ReadOnlyCalls

\* the paths a caller reads: every file of the folder and every path of an index
ReadPaths(c, d) ==
    DOMAIN d \cup UNION {DOMAIN c.SchemeManagers[m].index : m \in DOMAIN c.SchemeManagers}

\* the maps of the Configuration that a caller reads
View(c) ==
    [SchemeManagers |-> c.SchemeManagers, Issuers |-> c.Issuers,
     CredentialTypes |-> c.CredentialTypes,
     DisabledSchemeManagers |-> c.DisabledSchemeManagers]

DoParseFolder ==
    /\ Returned
    /\ \E r \in {ParseFolder(conf, disk)} :
       /\ conf' = r.conf
       /\ crashed' = r.panic
       /\ ret' = [op |-> "ParseFolder", err |-> r.err,
                  again |-> ret.op = "ParseFolder",
                  prev |-> IF ret.op = "ParseFolder" THEN View(conf) ELSE View(NewConfiguration)]
    /\ UNCHANGED <<disk, remote, text>>

DoPrune ==
    /\ Returned
    /\ \E r \in {Prune(conf)} :
       /\ conf' = r.conf
       /\ crashed' = r.panic
       /\ ret' = [op |-> "Prune",
                  removed |-> DOMAIN conf.SchemeManagers \ DOMAIN r.conf.SchemeManagers,
                  dropped |-> DOMAIN conf.Issuers \ DOMAIN r.conf.Issuers]
    /\ UNCHANGED <<disk, remote, text>>

DoPublicKey ==
    /\ Returned
    /\ \E id \in IssuerIds, counter \in Counters :
         \E r \in {PublicKey(conf, disk, id, counter)} :
         /\ conf' = r.conf
         /\ crashed' = r.panic
         /\ ret' = [op |-> "PublicKey", id |-> id, counter |-> counter,
                    key |-> r.key, err |-> r.err,
                    first |-> id \notin DOMAIN conf.publicKeys]
    /\ UNCHANGED <<disk, remote, text>>

DoReadAuthenticatedFile ==
    /\ Returned
    /\ \E mid \in DOMAIN conf.SchemeManagers, path \in ReadPaths(conf, disk) :
         \E r \in {ReadAuthenticatedFile(disk, conf.SchemeManagers[mid].index, path)} :
         ret' = [op |-> "ReadAuthenticatedFile", manager |-> mid, path |-> path,
                 bts |-> r.bts, found |-> r.found, err |-> r.err]
    /\ UNCHANGED <<disk, remote, conf, crashed, text>>

DoVerifySignature ==
    /\ Returned
    /\ \E m \in Managers :
         \E r \in {VerifySignature(disk, <<m>>)} :
         /\ ret' = [op |-> "VerifySignature", id |-> <<m>>, valid |-> r.valid,
                    err |-> r.err]
         /\ crashed' = r.panic
    /\ UNCHANGED <<disk, remote, conf, text>>

NoCall == [op |-> "none"]

SiblingVariants == {"absent", "good", "badsig", "issjunk", "foreign"}

InitParse ==
    /\ \E v1 \in LocalVariants, v2 \in SiblingVariants :
         disk = Merge(Merge(LocalTree("m1", v1), LocalTree("m2", v2)), GitFiles)
    /\ remote = [m \in Managers |-> Served(m, "r0")]
    /\ conf = NewConfiguration
    /\ ret = NoCall
    /\ crashed = FALSE
    /\ text = <<>>

NextParse ==
    \/ DoParseFolder
    \/ DoPrune
    \/ DoPublicKey
    \/ DoReadAuthenticatedFile
    \/ DoVerifySignature

SpecParse == InitParse /\ [][NextParse]_vars

(***************************************************************************)
(* Parsing, updating and downloading against a remote                      *)
(***************************************************************************)
Wanted(I, K, C) == [Issuers |-> I, PublicKeys |-> K, CredentialTypes |-> C]
NoKeys == [i \in {} |-> <<>>]

\* the sets a caller asks Download for
WantedSets ==
    LET I1 == <<"m1", "/", "i1">>
        I2 == <<"m1", "/", "i2">>
        J1 == <<"m2", "/", "i1">>
        C1 == <<"m1", "/", "i1", "/", "c1">>
        J2 == <<"m2", "/", "i2">>
        D1 == <<"m2", "/", "i1", "/", "c1">>
    IN  { Wanted({}, NoKeys, {}),
          Wanted({I1}, (I1 :> <<1>>), {C1}),
          Wanted({}, (I1 :> <<2>>), {}),
          Wanted({}, (I1 :> <<1, 2>>) @@ (J1 :> <<1>>), {}),
          Wanted({I2, J2}, NoKeys, {}),
          Wanted({I2}, (I1 :> <<1>>), {}),
          Wanted({}, NoKeys, {D1}) }

DoUpdateSchemeManager ==
    /\ Returned
    /\ \E m \in Managers, downloaded \in {NilSet, NewSet} :
         \E u \in UpdateSchemeManager(conf, disk, remote, <<m>>, downloaded) :
            /\ conf' = u.conf
            /\ disk' = u.disk
            /\ crashed' = u.panic
            /\ ret' = [op |-> "UpdateSchemeManager", id |-> <<m>>, err |-> u.err,
                       delta |-> u.delta, calls |-> u.calls, fetched |-> u.fetched]
    /\ UNCHANGED <<remote, text>>

DoDownload ==
    /\ Returned
    /\ \E set \in WantedSets :
         \E o \in Download(conf, disk, remote, set) :
            /\ conf' = o.conf
            /\ disk' = o.disk
            /\ crashed' = o.panic
            /\ ret' = [op |-> "Download", set |-> set, delta |-> o.delta,
                       err |-> o.err, updated |-> o.updated, calls |-> o.calls,
                       parsed |-> o.parsed]
    /\ UNCHANGED <<remote, text>>

SyncVariants   == {"good", "lowver", "keyjunk", "badsig"}
\* the folder of the second manager and what its server answers
SyncSiblings   == {<<"good", "r1">>, <<"good", "down">>, <<"absent", "r1">>}

InitSync ==
    /\ \E v1 \in SyncVariants, k1 \in RemoteKinds, s2 \in SyncSiblings :
         /\ disk = Merge(Merge(LocalTree("m1", v1), LocalTree("m2", s2[1])), GitFiles)
         /\ remote = [m \in Managers |-> Served(m, IF m = "m1" THEN k1 ELSE s2[2])]
    /\ conf = NewConfiguration
    /\ ret = NoCall
    /\ crashed = FALSE
    /\ text = <<>>

NextSync ==
    \/ DoParseFolder
    \/ DoUpdateSchemeManager
    \/ DoDownload

SpecSync == InitSync /\ [][NextSync]_vars

(***************************************************************************)
(* Claims                                                                  *)
(***************************************************************************)
IsRead == ret.op = "ReadAuthenticatedFile"
ReadIndex == conf.SchemeManagers[ret.manager].index
Mismatch ==
    /\ ret.path \in DOMAIN ReadIndex
    /\ ret.path \in DOMAIN disk
    /\ Sha256(disk[ret.path]) # ReadIndex[ret.path]

\* C1: ReadAuthenticatedFile returns bytes with found=true and no error only
\* when the SHA-256 hash of the content on disk equals the hash the manager's
\* index stores for the path, and then the bytes are that content; for a path
\* of the index whose content on disk hashes differently it returns an error
\* and no bytes.
C1_AuthenticatedContent ==
    IsRead =>
        /\ (ret.found /\ ret.err = NoErr) =>
              /\ ret.path \in DOMAIN ReadIndex
              /\ ret.path \in DOMAIN disk
              /\ Sha256(disk[ret.path]) = ReadIndex[ret.path]
              /\ ret.bts = disk[ret.path]
        /\ Mismatch => (ret.err # NoErr /\ ret.bts = NilBytes)

C1_Witness == IsRead /\ Mismatch /\ ret.found /\ ret.err # NoErr

Absent  == ~ret.found /\ ret.err = NoErr /\ ret.bts = NilBytes
Failure == ret.found /\ ret.err # NoErr
Success == ret.found /\ ret.err = NoErr /\ ret.bts # NilBytes

\* C2: for a path that is not a key of the manager's index ReadAuthenticatedFile
\* returns found=false, no bytes and no error, whatever is on disk there; and
\* every call ends in exactly one of absent (found=false, nil error), failure
\* (found=true, an error) and success (found=true, nil error, bytes).
C2_ThreeOutcomes ==
    IsRead =>
        /\ ret.path \notin DOMAIN ReadIndex => Absent
        /\ Absent \/ Failure \/ Success
        /\ ~(Absent /\ Failure) /\ ~(Absent /\ Success) /\ ~(Failure /\ Success)

C2_Witness ==
    IsRead /\ ret.path \notin DOMAIN ReadIndex /\ ret.path \in DOMAIN disk /\ Absent

\* the folder of m has a description.xml and an index that parses, and the
\* signature on the index does not verify
BadSignature(m) ==
    /\ MDesc(m) \in DOMAIN disk
    /\ MIndex(m) \in DOMAIN disk
    /\ parseIndex(disk, m).err = NoErr
    /\ ~VerifySignature(disk, <<m>>).valid

\* C3: a manager folder with a description.xml and a parseable index whose
\* signature does not verify is, after ParseFolder, registered in
\* SchemeManagers with Status InvalidSignature and Valid=false and has an entry
\* in DisabledSchemeManagers; after a Prune it is no longer in SchemeManagers.
C3_InvalidSignatureKeptThenPruned ==
    \A m \in Managers : BadSignature(m) =>
        /\ (ret.op = "ParseFolder" /\ ~crashed) =>
              /\ <<m>> \in DOMAIN conf.SchemeManagers
              /\ conf.SchemeManagers[<<m>>].Status = "InvalidSignature"
              /\ ~conf.SchemeManagers[<<m>>].Valid
              /\ <<m>> \in DOMAIN conf.DisabledSchemeManagers
        /\ (ret.op = "Prune" /\ ~crashed) => <<m>> \notin DOMAIN conf.SchemeManagers

C3_Witness ==
    /\ ret.op = "Prune"
    /\ \E m \in Managers : BadSignature(m) /\ <<m>> \in ret.removed
    /\ conf.SchemeManagers # NoMap

\* C5: VerifySignature returns to its caller whatever pk.pem and index.sig
\* hold, and when it returns an error, or recovered from a panic, valid is
\* false.
C5_VerifySignatureNeverAborts ==
    ret.op = "VerifySignature" =>
        /\ ~crashed
        /\ ret.err # NoErr => ~ret.valid
        /\ VerifySignatureBody(disk, ret.id).panic => (~ret.valid /\ ret.err # NoErr)

C5_Witness ==
    /\ ret.op = "VerifySignature"
    /\ VerifySignatureBody(disk, ret.id).panic
    /\ ~crashed

\* the server of manager id answers with an index and an index.sig that do
\* not verify together against the pk.pem of the folder, and the call gets as
\* far as downloading them: the manager is known, has a URL, and its index
\* and index.sig are there to back up
NewSignatureInvalid(c, d, rem, id) ==
    /\ id \in DOMAIN c.SchemeManagers
    /\ c.SchemeManagers[id].URL = id
    /\ {MIndex(id[1]), MSig(id[1])} \subseteq DOMAIN d
    /\ {MIndex(id[1]), MSig(id[1])} \subseteq DOMAIN rem[id[1]]
    /\ ~VerifySignature(
          With(With(d, MIndex(id[1]), rem[id[1]][MIndex(id[1])]),
               MSig(id[1]), rem[id[1]][MSig(id[1])]), id).valid

\* C4: when UpdateSchemeManager downloads a new index and index.sig whose
\* signature does not verify, it returns an error, and the local index and
\* index.sig then have exactly the contents they had before the call.
C4_InvalidSignatureRestored ==
    [][(/\ ret'.op = "UpdateSchemeManager"
        /\ NewSignatureInvalid(conf, disk, remote, ret'.id))
       => /\ ~crashed'
          /\ ret'.err # NoErr
          /\ {MIndex(ret'.id[1]), MSig(ret'.id[1])} \subseteq DOMAIN disk'
          /\ disk'[MIndex(ret'.id[1])] = disk[MIndex(ret'.id[1])]
          /\ disk'[MSig(ret'.id[1])] = disk[MSig(ret'.id[1])]]_vars

C4_Witness ==
    /\ ret.op = "UpdateSchemeManager"
    /\ ret.err = Err("SignatureInvalid")
    /\ ret.calls = 2
    /\ MIndex(ret.id[1]) \in DOMAIN disk
    /\ disk[MIndex(ret.id[1])] # remote[ret.id[1]][MIndex(ret.id[1])]
    /\ disk[Backup(MIndex(ret.id[1]))] = disk[MIndex(ret.id[1])]

\* the lookup of Download for one wanted key, made on the state before the call
KeyLookup(c, d, issid, keyid) == PublicKey(c, d, issid, keyid)
KeyFound(c, d, issid, keyid) ==
    \E r \in {KeyLookup(c, d, issid, keyid)} :
        ~r.panic /\ r.err = NoErr /\ r.key # NilKey
KeyNotFound(c, d, issid, keyid) ==
    \E r \in {KeyLookup(c, d, issid, keyid)} :
        ~r.panic /\ r.err = NoErr /\ r.key = NilKey
KeyError(c, d, issid, keyid) ==
    \E r \in {KeyLookup(c, d, issid, keyid)} : ~r.panic /\ r.err # NoErr

\* every issuer, credential type and key of the wanted set is there
AllPresent(c, d, set) ==
    /\ set.Issuers \subseteq DOMAIN c.Issuers
    /\ set.CredentialTypes \subseteq DOMAIN c.CredentialTypes
    /\ \A issid \in DOMAIN set.PublicKeys :
          \A k \in DOMAIN set.PublicKeys[issid] :
             KeyFound(c, d, issid, set.PublicKeys[issid][k])

\* C6: when every issuer, credential type and public key of the wanted set is
\* already present, Download calls UpdateSchemeManager for no manager, makes
\* no transport call, does not run ParseFolder, and returns an empty delta
\* and no error.
C6_NothingMissingNothingDone ==
    [][(ret'.op = "Download" /\ AllPresent(conf, disk, ret'.set))
       => /\ ~crashed'
          /\ ret'.updated = {}
          /\ ret'.calls = 0
          /\ ~ret'.parsed
          /\ ~ret'.delta.nil /\ Empty(ret'.delta)
          /\ ret'.err = NoErr
          /\ disk' = disk]_vars

C6_Witness ==
    /\ ret.op = "Download"
    /\ ret.set.Issuers # {} /\ ret.set.CredentialTypes # {}
    /\ DOMAIN ret.set.PublicKeys # {}
    /\ AllPresent(conf, disk, ret.set)
    /\ ret.updated = {} /\ ret.calls = 0 /\ ret.err = NoErr

\* the scheme managers that own a wanted issuer absent from Issuers, a wanted
\* credential type absent from CredentialTypes, or a wanted key whose lookup
\* returns not-found
Owners(c, d, set) ==
    {SchemeManagerIdentifier(issid) : issid \in set.Issuers \ DOMAIN c.Issuers}
    \cup {ManagerOfCredential(credid) :
             credid \in set.CredentialTypes \ DOMAIN c.CredentialTypes}
    \cup {SchemeManagerIdentifier(issid) :
             issid \in {x \in DOMAIN set.PublicKeys :
                          \E k \in DOMAIN set.PublicKeys[x] :
                             KeyNotFound(c, d, x, set.PublicKeys[x][k])}}

\* a lookup of a wanted key returns an error
LookupFails(c, d, set) ==
    \E issid \in DOMAIN set.PublicKeys :
       \E k \in DOMAIN set.PublicKeys[issid] :
          KeyError(c, d, issid, set.PublicKeys[issid][k])

\* every UpdateSchemeManager of the call returned no error: the call went on
\* to its end, where it either ran ParseFolder or returned nil
UpdatesSucceeded(r) == r.parsed \/ r.err = NoErr

\* C7, as stated: Download calls UpdateSchemeManager for exactly the scheme
\* managers that own a missing wanted issuer, credential type or key, and
\* for no other; when all updates succeed it runs ParseFolder if and only if
\* the delta is non-empty.
C7_ExactlyTheOwners ==
    [][(ret'.op = "Download" /\ ~crashed')
       => /\ ret'.updated = Owners(conf, disk, ret'.set)
          /\ UpdatesSucceeded(ret') => (ret'.parsed <=> ~Empty(ret'.delta))]_vars

\* C7, amended: Download calls UpdateSchemeManager only for scheme managers
\* that own a missing wanted issuer, credential type or key; for none when a
\* key lookup returns an error; up to the first update that fails otherwise,
\* so for all of them when every update succeeds; and when all updates
\* succeed it runs ParseFolder if and only if the delta is non-empty.
C7_OwnersUntilFirstError ==
    [][(ret'.op = "Download" /\ ~crashed')
       => /\ ret'.updated \subseteq Owners(conf, disk, ret'.set)
          /\ LookupFails(conf, disk, ret'.set) =>
                (ret'.updated = {} /\ ret'.calls = 0 /\ ret'.err # NoErr)
          /\ (~LookupFails(conf, disk, ret'.set)
              /\ ret'.updated # Owners(conf, disk, ret'.set)) =>
                (ret'.err # NoErr /\ ~ret'.parsed /\ ret'.updated # {})
          /\ UpdatesSucceeded(ret') =>
                /\ ret'.updated = Owners(conf, disk, ret'.set)
                /\ ret'.parsed <=> ~Empty(ret'.delta)]_vars

C7_Witness ==
    /\ ret.op = "Download"
    /\ ~crashed
    /\ Cardinality(ret.updated) = 2
    /\ ret.parsed
    /\ ~Empty(ret.delta)

\* the server of the manager of issid answers with an index that lists the
\* key file of (issid, keyid), with a signature on it that verifies against
\* the pk.pem of the folder, and with that key file
ValidlyServed(d, rem, issid, keyid) ==
    \E m \in Managers, f \in {"1.xml", "2.xml"} :
       /\ <<m>> = SchemeManagerIdentifier(issid)
       /\ Atoi(f) = [ok |-> TRUE, i |-> keyid]
       /\ {MIndex(m), MSig(m)} \subseteq DOMAIN rem[m]
       /\ VerifySignature(With(With(d, MIndex(m), rem[m][MIndex(m)]),
                               MSig(m), rem[m][MSig(m)]), <<m>>).valid
       /\ \E path \in {<<m, "/">> \o Name(issid) \o <<"/", "PublicKeys", "/", f>>},
             pi \in {FromString(EmptyIndex, TextOf(rem[m][MIndex(m)]))} :
             /\ pi.err = NoErr
             /\ path \in DOMAIN pi.index
             /\ path \in DOMAIN rem[m]
             /\ rem[m][path].t = "key"
             /\ Sha256(rem[m][path]) = pi.index[path]

\* C8: after Download returns without error for a wanted set with a public
\* key that was not present before the call and whose key file the remote's
\* validly signed index lists and serves, a following PublicKey for that
\* issuer and counter returns the key, not not-found.
C8_DownloadedKeyIsFound ==
    [][(ret'.op = "Download" /\ ~crashed' /\ ret'.err = NoErr)
       => \A issid \in DOMAIN ret'.set.PublicKeys :
             \A k \in DOMAIN ret'.set.PublicKeys[issid] :
                (/\ KeyNotFound(conf, disk, issid, ret'.set.PublicKeys[issid][k])
                 /\ ValidlyServed(disk, remote, issid, ret'.set.PublicKeys[issid][k]))
                => KeyFound(conf', disk', issid, ret'.set.PublicKeys[issid][k])]_vars

\* C9: a ParseFolder that follows a ParseFolder on the same folder leaves
\* SchemeManagers, Issuers, CredentialTypes and DisabledSchemeManagers with
\* the keys and the contents that the first one left, whatever the
\* Configuration held before the first.
C9_ParseFolderIdempotent ==
    (ret.op = "ParseFolder" /\ ret.again /\ ~crashed) => View(conf) = ret.prev

C9_Witness ==
    /\ ret.op = "ParseFolder" /\ ret.again /\ ~crashed
    /\ conf.DisabledSchemeManagers # NoMap
    /\ conf.Issuers # NoMap
    /\ \E m \in DOMAIN conf.SchemeManagers :
          conf.SchemeManagers[m].index # EmptyIndex

\* the entries of map f whose key k has Owner(k) in the set of managers M
OwnedIssuers(f, M) == {x \in DOMAIN f : SchemeManagerIdentifier(x) \in M}
OwnedCredentials(f, M) == {x \in DOMAIN f : ManagerOfCredential(x) \in M}
Invalid(c) == {m \in DOMAIN c.SchemeManagers : ~c.SchemeManagers[m].Valid}
Same(f, g, K) == K \subseteq DOMAIN g /\ \A k \in K : g[k] = f[k]

\* C12: after Prune no manager with Valid=false is in SchemeManagers, and
\* Issuers, CredentialTypes and the public-key cache hold no entry of a
\* removed manager; every manager with Valid=true, and every issuer,
\* credential type and cached key set it owns, is as it was.
C12_PruneCascades ==
    [][ret'.op = "Prune" =>
        /\ ~crashed'
        /\ Invalid(conf') = {}
        /\ DOMAIN conf'.SchemeManagers = DOMAIN conf.SchemeManagers \ Invalid(conf)
        /\ OwnedIssuers(conf'.Issuers, Invalid(conf)) = {}
        /\ OwnedCredentials(conf'.CredentialTypes, Invalid(conf)) = {}
        /\ OwnedIssuers(conf'.publicKeys, Invalid(conf)) = {}
        /\ Same(conf.SchemeManagers, conf'.SchemeManagers, DOMAIN conf'.SchemeManagers)
        /\ Same(conf.Issuers, conf'.Issuers,
                OwnedIssuers(conf.Issuers, DOMAIN conf'.SchemeManagers))
        /\ Same(conf.CredentialTypes, conf'.CredentialTypes,
                OwnedCredentials(conf.CredentialTypes, DOMAIN conf'.SchemeManagers))
        /\ Same(conf.publicKeys, conf'.publicKeys,
                OwnedIssuers(conf.publicKeys, DOMAIN conf'.SchemeManagers))]_vars

C12_Witness ==
    /\ ret.op = "Prune"
    /\ ~crashed
    /\ ret.removed # {} /\ ret.dropped # {}
    /\ conf.SchemeManagers # NoMap /\ conf.Issuers # NoMap
    /\ conf.CredentialTypes # NoMap /\ conf.publicKeys # NoMap

\* C13: ParseFolder leaves the public-key cache unchanged: every key set
\* cached for an issuer by an earlier PublicKey call is still cached, with
\* the same keys, after a later ParseFolder.
C13_ParseFolderKeepsKeyCache ==
    [][ret'.op = "ParseFolder" => Same(conf.publicKeys, conf'.publicKeys, DOMAIN conf.publicKeys)]_vars

\* the folder of manager m on disk d
FolderOf(d, m) == [p \in {q \in DOMAIN d : Head(q) = m} |-> d[p]]

\* C14: within one ParseFolder a failure in one manager folder never keeps
\* another folder from being processed: the call returns, every folder of
\* the root other than .git is registered in SchemeManagers, and every
\* manager whose own folder is correct ends Valid, whatever its siblings are.
C14_SiblingsAreProcessed ==
    ret.op = "ParseFolder" =>
        /\ ~crashed
        /\ \A m \in Managers :
              /\ IsDir(disk, <<m>>) => <<m>> \in DOMAIN conf.SchemeManagers
              /\ FolderOf(disk, m) = LocalTree(m, "good") =>
                    /\ <<m>> \in DOMAIN conf.SchemeManagers
                    /\ conf.SchemeManagers[<<m>>].Valid

\* C15: when ParseFolder has processed all manager folders, for every
\* registered manager Valid=true, Status=Valid and absence from
\* DisabledSchemeManagers are equivalent, and every DisabledSchemeManagers
\* entry names a registered manager, carries that manager's Status and has
\* a non-nil error.
C15_ValidStatusDisabledAgree ==
    (ret.op = "ParseFolder" /\ ~crashed) =>
        /\ \A id \in DOMAIN conf.SchemeManagers :
              /\ conf.SchemeManagers[id].Valid <=> conf.SchemeManagers[id].Status = "Valid"
              /\ conf.SchemeManagers[id].Valid <=> id \notin DOMAIN conf.DisabledSchemeManagers
        /\ \A id \in DOMAIN conf.DisabledSchemeManagers :
              /\ id \in DOMAIN conf.SchemeManagers
              /\ conf.DisabledSchemeManagers[id].Manager = id
              /\ conf.DisabledSchemeManagers[id].Status = conf.SchemeManagers[id].Status
              /\ conf.DisabledSchemeManagers[id].Err # NoErr

C15_Witness ==
    /\ ret.op = "ParseFolder" /\ ~crashed
    /\ \E a, b \in DOMAIN conf.SchemeManagers :
          /\ conf.SchemeManagers[a].Valid
          /\ b \in DOMAIN conf.DisabledSchemeManagers
          /\ conf.SchemeManagers[b].Status = "ContentParsingError"

\* the paths of manager's index that are on disk d with another hash
Mismatching(d, manager) ==
    {file \in DOMAIN manager.index :
        PathExists(d, file) /\ Sha256(d[file]) # manager.index[file]}

\* C19: when ParseFolder leaves a manager Valid, every path of its index that
\* is on disk has content with the hash of its index entry; one path on
\* disk with another hash makes the manager end in InvalidSignature. A path
\* of the index that is not on disk does not keep the manager from being
\* Valid (the witness).
C19_ValidMeansHashesMatch ==
    (ret.op = "ParseFolder" /\ ~crashed) =>
        \A id \in DOMAIN conf.SchemeManagers :
            /\ conf.SchemeManagers[id].Valid => Mismatching(disk, conf.SchemeManagers[id]) = {}
            /\ Mismatching(disk, conf.SchemeManagers[id]) # {} =>
                  conf.SchemeManagers[id].Status = "InvalidSignature"

C19_Witness ==
    /\ ret.op = "ParseFolder" /\ ~crashed
    /\ \E id \in DOMAIN conf.SchemeManagers :
          /\ conf.SchemeManagers[id].Valid
          /\ \E file \in DOMAIN conf.SchemeManagers[id].index : ~PathExists(disk, file)
          /\ \E file \in DOMAIN conf.SchemeManagers[id].index : PathExists(disk, file)

\* C20: minimum schema versions are enforced: a manager whose description
\* has XMLVersion below 7 never becomes Valid and ends in ParsingError, and
\* no issuer or credential type with XMLVersion below 4 is in Issuers or
\* CredentialTypes.
C20_MinimumVersions ==
    /\ \A id \in DOMAIN conf.Issuers : conf.Issuers[id].XMLVersion >= 4
    /\ \A id \in DOMAIN conf.CredentialTypes : conf.CredentialTypes[id].XMLVersion >= 4
    /\ \A id \in DOMAIN conf.SchemeManagers :
          /\ conf.SchemeManagers[id].Valid => conf.SchemeManagers[id].XMLVersion >= 7
          /\ conf.SchemeManagers[id].XMLVersion \in 1..6 =>
                conf.SchemeManagers[id].Status = "ParsingError"
          /\ \A m \in Managers :
                (/\ id = <<m>>
                 /\ PathExists(disk, MDesc(m))
                 /\ disk[MDesc(m)].t = "sm"
                 /\ disk[MDesc(m)].v < 7) => ~conf.SchemeManagers[id].Valid

C20_Witness ==
    /\ ret.op = "ParseFolder" /\ ~crashed
    /\ \E id \in DOMAIN conf.SchemeManagers :
          /\ conf.SchemeManagers[id].XMLVersion = 6
          /\ conf.SchemeManagers[id].Status = "ParsingError"
          /\ id \in DOMAIN conf.DisabledSchemeManagers

(***************************************************************************)
(* Index texts: FromString on a text, String on the index it gave, and     *)
(* FromString again on the serialisation.                                  *)
(***************************************************************************)
TextChars == {"a", "B", " ", LF}

RECURSIVE Texts(_)
Texts(n) ==
    IF n = 0 THEN {<<>>}
    ELSE LET shorter == Texts(n - 1) IN
         shorter \cup {Append(t, c) : t \in {u \in shorter : Len(u) = n - 1},
                                      c \in TextChars}

\* index := SchemeManagerIndex(make(map...)); err := index.FromString(text)
DoFromString ==
    /\ ret.op \in {"none", "String"}
    /\ LET r == FromString(EmptyIndex, text) IN
       ret' = [op |-> "FromString", index |-> r.index, err |-> r.err,
               serialized |-> ret.op = "String",
               src |-> IF ret.op = "String" THEN ret.index ELSE EmptyIndex]
    /\ UNCHANGED <<disk, remote, conf, crashed, text>>

\* text := index.String(), for an index that FromString returned without error
DoString ==
    /\ ret.op = "FromString"
    /\ ret.err = NoErr
    /\ ~ret.serialized
    /\ text' = String(ret.index)
    /\ ret' = [op |-> "String", index |-> ret.index]
    /\ UNCHANGED <<disk, remote, conf, crashed>>

InitIndex ==
    /\ text \in Texts(MaxTextLen)
    /\ disk = NoFiles
    /\ remote = [m \in Managers |-> Served(m, "r0")]
    /\ conf = NewConfiguration
    /\ ret = NoCall
    /\ crashed = FALSE

NextIndex == DoFromString \/ DoString

SpecIndex == InitIndex /\ [][NextIndex]_vars

\* C10: an index that FromString read without error from a text into an empty
\* index, serialised with String and parsed again into a fresh empty index,
\* parses without error and gives the same paths with the same hashes.
C10_IndexRoundTrip ==
    (ret.op = "FromString" /\ ret.serialized) =>
        /\ ret.err = NoErr
        /\ DOMAIN ret.index = DOMAIN ret.src
        /\ \A p \in DOMAIN ret.src : ret.index[p] = ret.src[p]

C10_Witness ==
    /\ ret.op = "FromString"
    /\ ret.serialized
    /\ Cardinality(DOMAIN ret.src) = 2
    /\ \E p \in DOMAIN ret.src : ret.src[p] # <<>>
    /\ ret.index = ret.src

(***************************************************************************)
(* Identifiers: Parent, Name and the typed accessors on a raw string       *)
(***************************************************************************)
MaxIdLen == 5
IdChars  == {"m", "i", "c", ".", "/"}

RECURSIVE IdTexts(_)
IdTexts(n) ==
    IF n = 1 THEN {<<c>> : c \in IdChars}
    ELSE The({ shorter \cup {Append(t, c) : t \in {u \in shorter : Len(u) = n - 1},
                                           c \in IdChars} :
               shorter \in {IdTexts(n - 1)} })

\* objectIdentifier(text).Parent()
DoParent ==
    /\ ret.op = "none"
    /\ \E r \in {Parent(text)} :
         /\ ret' = [op |-> "Parent", id |-> text, out |-> r]
         /\ crashed' = (r = Panic)
    /\ UNCHANGED <<disk, remote, conf, text>>

\* objectIdentifier(text).Name()
DoName ==
    /\ ret.op = "none"
    /\ ret' = [op |-> "Name", id |-> text, out |-> Name(text)]
    /\ UNCHANGED <<disk, remote, conf, crashed, text>>

\* NewCredentialTypeIdentifier(text).IssuerIdentifier().SchemeManagerIdentifier()
DoManagerOfCredential ==
    /\ ret.op = "none"
    /\ \E r \in {ManagerOfCredential(text)} :
         /\ ret' = [op |-> "ManagerOfCredential", id |-> text, out |-> r]
         /\ crashed' = (r = Panic)
    /\ UNCHANGED <<disk, remote, conf, text>>

InitIdentifier ==
    /\ text \in IdTexts(MaxIdLen)
    /\ disk = NoFiles
    /\ remote = [m \in Managers |-> NoFiles]
    /\ conf = NewConfiguration
    /\ ret = NoCall
    /\ crashed = FALSE

NextIdentifier == DoParent \/ DoName \/ DoManagerOfCredential

SpecIdentifier == InitIdentifier /\ [][NextIdentifier]_vars

\* the positions of the separator of "m.i.c" in an identifier
Dots(id) == {k \in DOMAIN id : id[k] = "."}

\* C11: for the credential type identifier built from "m.i.c",
\* IssuerIdentifier().SchemeManagerIdentifier() returns normally and is the
\* scheme manager identifier built from "m"; and for every identifier that
\* has a parent segment, Parent returns normally with the prefix up to the
\* last separator.
C11_DerivationComposes ==
    /\ (ret.op = "ManagerOfCredential" /\ ret.id = <<"m", ".", "i", ".", "c">>) =>
          (~crashed /\ ret.out = <<"m">>)
    /\ (ret.op = "Parent" /\ \E k \in Dots(ret.id) : k > 1) =>
          /\ ~crashed
          /\ \E k \in Dots(ret.id) :
                /\ \A j \in Dots(ret.id) : j <= k
                /\ ret.out = SubSeq(ret.id, 1, k - 1)

(***************************************************************************)
(* Updates: folders that lack or differ from what the old index lists,     *)
(* against servers that changed issuer and credential type descriptions    *)
(***************************************************************************)
UpdateVariants == {"good", "missingtracked", "tampered", "newer", "lowver", "absent"}
UpdateKinds    == RemoteKinds \cup {"r3"}

InitUpdate ==
    /\ \E v1 \in UpdateVariants, k1 \in UpdateKinds :
         /\ disk = Merge(Merge(LocalTree("m1", v1), LocalTree("m2", "good")), GitFiles)
         /\ remote = [m \in Managers |-> Served(m, IF m = "m1" THEN k1 ELSE "r1")]
    /\ conf = NewConfiguration
    /\ ret = NoCall
    /\ crashed = FALSE
    /\ text = <<>>

NextUpdate ==
    \/ DoParseFolder
    \/ DoUpdateSchemeManager

SpecUpdate == InitUpdate /\ [][NextUpdate]_vars

\* C16: UpdateSchemeManager, whether it succeeds or fails, leaves
\* SchemeManagers (but for the index of the updated manager), Issuers,
\* CredentialTypes and DisabledSchemeManagers as they were; what it
\* downloaded shows in them only after a later ParseFolder.
C16_UpdateLeavesGraph ==
    [][ret'.op = "UpdateSchemeManager" =>
        /\ conf'.Issuers = conf.Issuers
        /\ conf'.CredentialTypes = conf.CredentialTypes
        /\ conf'.DisabledSchemeManagers = conf.DisabledSchemeManagers
        /\ DOMAIN conf'.SchemeManagers = DOMAIN conf.SchemeManagers
        /\ \A id \in DOMAIN conf.SchemeManagers :
              IF id = ret'.id
              THEN conf'.SchemeManagers[id] =
                     [conf.SchemeManagers[id] EXCEPT !.index = conf'.SchemeManagers[id].index]
              ELSE conf'.SchemeManagers[id] = conf.SchemeManagers[id]]_vars

C16_Witness ==
    /\ ret.op = "UpdateSchemeManager" /\ ret.err = NoErr /\ ~crashed
    /\ IDesc("m1", "i1") \in ret.fetched
    /\ IssuerIdOf(disk[IDesc("m1", "i1")]) \in DOMAIN conf.Issuers
    /\ disk[IDesc("m1", "i1")].v = 5
    /\ conf.Issuers[IssuerIdOf(disk[IDesc("m1", "i1")])].XMLVersion = 4
    /\ conf.SchemeManagers[<<"m1">>].index = IndexOf(Tree2("m1"))

\* C17: in a successful UpdateSchemeManager a path of the new index is
\* downloaded exactly when it is not so that the old in-memory index has the
\* same hash for it and the file is on disk; afterwards every path of the
\* new index is on disk.
C17_FetchedIffChangedOrMissing ==
    [][(ret'.op = "UpdateSchemeManager" /\ ret'.err = NoErr /\ ~crashed') =>
        /\ ret'.fetched \subseteq DOMAIN conf'.SchemeManagers[ret'.id].index
        /\ \A f \in DOMAIN conf'.SchemeManagers[ret'.id].index :
              /\ f \in ret'.fetched <=>
                    ~(/\ f \in DOMAIN conf.SchemeManagers[ret'.id].index
                      /\ conf.SchemeManagers[ret'.id].index[f]
                            = conf'.SchemeManagers[ret'.id].index[f]
                      /\ PathExists(disk, f))
              /\ PathExists(disk', f)
              /\ f \in ret'.fetched => disk'[f] = remote[ret'.id[1]][f]]_vars

\* the update fetched a changed file, a new one and an unchanged one that
\* was missing, and skipped the files that are unchanged and on disk
C17_Witness ==
    /\ ret.op = "UpdateSchemeManager" /\ ret.err = NoErr /\ ~crashed
    /\ ret.fetched = {IDesc("m1", "i1"), CDesc("m1", "i1", "c1"), KFile("m1", "i1", "2.xml")}
    /\ conf.SchemeManagers[<<"m1">>].index = IndexOf(Tree2("m1"))
    /\ disk[CDesc("m1", "i1", "c1")] = CredDesc("m1", "i1", "c1", 4)
    /\ disk[KFile("m1", "i1", "1.xml")] = KeyFile(1)

\* the paths <manager>/<issuer>/description.xml
IssuerPaths == {IDesc(m, i) : m \in Managers, i \in {"i1", "i2"}}
\* the paths <manager>/<issuer>/Issues/<type>/description.xml
CredentialPaths == {CDesc(m, i, c) : m \in Managers, i \in {"i1", "i2"}, c \in {"c1", "c2"}}

\* C18: with a delta set supplied, after UpdateSchemeManager the set's
\* Issuers holds an identifier only if a path <manager>/<issuer>/description.xml
\* was downloaded, and it is the identifier of that manager and issuer; its
\* CredentialTypes holds an identifier only if a path
\* <manager>/<issuer>/Issues/<type>/description.xml was downloaded; a
\* credential type description adds no issuer identifier and any other file
\* adds nothing.
C18_DeltaNamesWhatWasDownloaded ==
    (ret.op = "UpdateSchemeManager" /\ ~ret.delta.nil) =>
        /\ \A x \in ret.delta.Issuers :
              \E f \in ret.fetched \cap IssuerPaths : x = <<f[1], ".", f[3]>>
        /\ \A x \in ret.delta.CredentialTypes :
              \E f \in ret.fetched \cap CredentialPaths : x = <<f[1], ".", f[3], ".", f[7]>>

(***************************************************************************)
(* Content errors                                                          *)
(***************************************************************************)
\* the parse of the manager reads a description at path: a file that is
\* not on disk or not in the index is not read
Described(d, manager, path) == path \in DOMAIN d /\ path \in DOMAIN manager.index

\* the description at path is read and refused
Refused(d, manager, path, kind) ==
    Described(d, manager, path) /\ (d[path].t # kind \/ d[path].v < 4)

IssuerNames == {"i1", "i2"}
TypeNames   == {"c1"}

\* processing of issuer folder i of manager m fails
IssuerFails(d, manager, i) ==
    \/ Refused(d, manager, IDesc(manager.ID, i), "iss")
    \/ /\ Described(d, manager, IDesc(manager.ID, i))
       /\ \E c \in TypeNames : Refused(d, manager, CDesc(manager.ID, i, c), "cred")

\* C21: when processing of an issuer or credential type under a manager
\* fails, the manager ends in ContentParsingError with Valid=false, the
\* issuer folders after the failing one are not processed, and every
\* issuer and credential type registered before the failure is in Issuers
\* and CredentialTypes when ParseFolder returns.
C21_PartialContentIsKept ==
    (ret.op = "ParseFolder" /\ ~crashed) =>
        \A id \in DOMAIN conf.SchemeManagers :
          \A manager \in {conf.SchemeManagers[id]} :
            manager.Status \in {"Valid", "ContentParsingError"} =>
              /\ (\E i \in IssuerNames : IssuerFails(disk, manager, i)) <=>
                    (manager.Status = "ContentParsingError" /\ ~manager.Valid)
              /\ \A i \in IssuerNames :
                    IssuerFails(disk, manager, i) =>
                      \* the folders after it are not processed
                      /\ \A j \in IssuerNames :
                            StrLess(<<i>>, <<j>>) => <<manager.ID, "/", j>> \notin DOMAIN conf.Issuers
                      \* what was registered before it stays
                      /\ \A j \in IssuerNames :
                            (/\ StrLess(<<j>>, <<i>>)
                             /\ Described(disk, manager, IDesc(manager.ID, j))
                             /\ ~IssuerFails(disk, manager, j)) =>
                               /\ IssuerIdOf(disk[IDesc(manager.ID, j)]) \in DOMAIN conf.Issuers
                               /\ \A c \in TypeNames :
                                     Described(disk, manager, CDesc(manager.ID, j, c)) =>
                                       CredentialTypeIdOf(disk[CDesc(manager.ID, j, c)])
                                          \in DOMAIN conf.CredentialTypes
                      \* the issuer of a failing credential type stays
                      /\ ~Refused(disk, manager, IDesc(manager.ID, i), "iss") =>
                            IssuerIdOf(disk[IDesc(manager.ID, i)]) \in DOMAIN conf.Issuers

\* the second issuer folder failed: the first issuer and its credential type stay
C21_Witness ==
    /\ ret.op = "ParseFolder" /\ ~crashed
    /\ <<"m1">> \in DOMAIN conf.SchemeManagers
    /\ conf.SchemeManagers[<<"m1">>].Status = "ContentParsingError"
    /\ IssuerFails(disk, conf.SchemeManagers[<<"m1">>], "i2")
    /\ ~IssuerFails(disk, conf.SchemeManagers[<<"m1">>], "i1")
    /\ <<"m1", "/", "i1">> \in DOMAIN conf.Issuers
    /\ <<"m1", "/", "i1", "/", "c1">> \in DOMAIN conf.CredentialTypes

\* the first issuer folder failed at its credential type: the issuer stays
\* and the second folder, which is correct, was not processed
C21_WitnessSkipped ==
    /\ ret.op = "ParseFolder" /\ ~crashed
    /\ <<"m1">> \in DOMAIN conf.SchemeManagers
    /\ IssuerFails(disk, conf.SchemeManagers[<<"m1">>], "i1")
    /\ Described(disk, conf.SchemeManagers[<<"m1">>], IDesc("m1", "i2"))
    /\ <<"m1", "/", "i1">> \in DOMAIN conf.Issuers
    /\ <<"m1", "/", "i2">> \notin DOMAIN conf.Issuers

\* C22: when ParseFolder returns, the Valid flag of every registered issuer
\* and of every registered credential type equals the Valid flag of its
\* owning scheme manager.
C22_ValidFollowsManager ==
    (ret.op = "ParseFolder" /\ ~crashed) =>
        /\ \A x \in DOMAIN conf.Issuers :
              SchemeManagerIdentifier(x) \in DOMAIN conf.SchemeManagers =>
                conf.Issuers[x].Valid = conf.SchemeManagers[SchemeManagerIdentifier(x)].Valid
        /\ \A x \in DOMAIN conf.CredentialTypes :
              ManagerOfCredential(x) \in DOMAIN conf.SchemeManagers =>
                conf.CredentialTypes[x].Valid = conf.SchemeManagers[ManagerOfCredential(x)].Valid

\* C23: a manager folder without description.xml is registered with
\* Valid=false and recorded in DisabledSchemeManagers, its index is not
\* parsed, and it ends in the ParsingError status; after ParseFolder no
\* registered manager has the Unprocessed status.
C23_NoDescriptionIsParsingError ==
    (ret.op = "ParseFolder" /\ ~crashed) =>
        /\ \A m \in Managers :
              (IsDir(disk, <<m>>) /\ ~PathExists(disk, MDesc(m))) =>
                 /\ <<m>> \in DOMAIN conf.SchemeManagers
                 /\ <<m>> \in DOMAIN conf.DisabledSchemeManagers
                 /\ ~conf.SchemeManagers[<<m>>].Valid
                 /\ conf.SchemeManagers[<<m>>].index = EmptyIndex
                 /\ conf.SchemeManagers[<<m>>].Status = "ParsingError"
        /\ \A id \in DOMAIN conf.SchemeManagers :
              conf.SchemeManagers[id].Status # "Unprocessed"

(***************************************************************************)
(* The key cache                                                           *)
(***************************************************************************)
\* the counters N of the files PublicKeys/<N>.xml of issuer id that are on
\* disk d and listed in the index with the hash they have
ListedKeys(d, index, id) ==
    {n \in Counters :
        \E f \in {"1.xml", "2.xml"} :
           /\ Atoi(f) = [ok |-> TRUE, i |-> n]
           /\ \E p \in {KFile(id[1], id[3], f)} :
                 p \in DOMAIN d /\ p \in DOMAIN index /\ Sha256(d[p]) = index[p]}

\* C24: after the first PublicKey call for an issuer returns without error,
\* the cache holds a key for every file PublicKeys/<N>.xml of the issuer
\* with numeric N that the manager's index lists with a matching hash,
\* whatever other files are in the folder.
C24_AllListedKeysCached ==
    (/\ ret.op = "PublicKey" /\ ret.first /\ ret.err = NoErr /\ ~crashed
     /\ <<ret.id[1]>> \in DOMAIN conf.SchemeManagers) =>
        \A n \in ListedKeys(disk, conf.SchemeManagers[<<ret.id[1]>>].index, ret.id) :
           /\ n \in DOMAIN conf.publicKeys[ret.id]
           /\ conf.publicKeys[ret.id][n].n = disk[KFile(ret.id[1], ret.id[3], The({f \in {"1.xml", "2.xml"} : Atoi(f).i = n}))].v

(***************************************************************************)
(* Errors of FromString                                                    *)
(***************************************************************************)
\* the numbers (from 0) of the lines of text s that are not empty and do not
\* consist of two parts of which the first is hexadecimal
Offending(s) ==
    The({ {j \in 0..(Len(lines) - 1) :
             /\ Len(lines[j + 1]) > 0
             /\ \E parts \in {Split(lines[j + 1], " ")} :
                   Len(parts) # 2 \/ ~HexDecode(parts[1]).ok} :
          lines \in {Split(s, LF)} })

\* the last line of text s that names path p
LastLineOf(s, p) ==
    The({ Max({j \in 1..Len(lines) :
                 Len(lines[j]) > 0 /\ Split(lines[j], " ")[2] = p}) :
          lines \in {Split(s, LF)} })

\* C25: FromString returns an error for every text with a non-empty line
\* that is not two tokens or whose first token is not hexadecimal, and the
\* error carries the number of the offending line in both cases; empty lines
\* are skipped and the hash of the last line that names a path is stored.
C25_ErrorNamesTheLine ==
    ret.op = "FromString" =>
        \A bad \in {Offending(text)} :
           IF bad # {}
           THEN /\ ret.err # NoErr
                /\ ret.err.line \in bad
           ELSE /\ ret.err = NoErr
                /\ \A p \in DOMAIN ret.index :
                      ret.index[p] =
                        HexDecode(Split(Split(text, LF)[LastLineOf(text, p)], " ")[1]).bytes

\* C26: VerifySignature returns valid=true only if index, index.sig and
\* pk.pem exist, pk.pem holds an ECDSA public key, index.sig decodes to
\* exactly two integers (r, s), and ECDSA verification of the SHA-256 digest
\* of the index with (r, s) succeeds; a signature that decodes to another
\* number of integers gives valid=false.
C26_ValidNeedsTwoIntegers ==
    (ret.op = "VerifySignature" /\ ~crashed) =>
        /\ ret.valid =>
              /\ {MIndex(ret.id[1]), MSig(ret.id[1]), MPk(ret.id[1])} \subseteq DOMAIN disk
              /\ disk[MPk(ret.id[1])].t = "pem"
              /\ disk[MPk(ret.id[1])].a = "ecdsa"
              /\ disk[MSig(ret.id[1])].t = "sig"
              /\ Len(disk[MSig(ret.id[1])].ints) = 2
              /\ EcdsaVerify(disk[MPk(ret.id[1])].v, Sha256(disk[MIndex(ret.id[1])]),
                             disk[MSig(ret.id[1])].ints[1], disk[MSig(ret.id[1])].ints[2])
        /\ (/\ MSig(ret.id[1]) \in DOMAIN disk
            /\ disk[MSig(ret.id[1])].t = "sig"
            /\ Len(disk[MSig(ret.id[1])].ints) # 2) => ~ret.valid

\* C27: the in-memory index of a manager is replaced only by a fully
\* successful UpdateSchemeManager: when the call returns an error the index
\* is what it was before the call, and after a successful call it is the
\* parse of the index file now on disk.
C27_IndexOnlyOnSuccess ==
    [][ret'.op = "UpdateSchemeManager" =>
        IF ret'.err # NoErr \/ crashed'
        THEN conf'.SchemeManagers = conf.SchemeManagers
        ELSE \E r \in {parseIndex(disk', ret'.id[1])} :
               /\ r.err = NoErr
               /\ conf'.SchemeManagers[ret'.id].index = r.index]_vars

\* a file of the new index could not be fetched: the index on disk is the
\* new one, the one in memory the old one
C27_Witness ==
    /\ ret.op = "UpdateSchemeManager" /\ ~crashed
    /\ ret.err = Err("transport")
    /\ ret.id \in DOMAIN conf.SchemeManagers
    /\ \E r \in {parseIndex(disk, ret.id[1])} :
          /\ r.err = NoErr
          /\ r.index # conf.SchemeManagers[ret.id].index
          /\ conf.SchemeManagers[ret.id].index # EmptyIndex

\* C28: every key that PublicKey returns was read under an index whose
\* signature was verified: PublicKey returns no key for an issuer whose
\* scheme manager is registered with Valid=false.
C28_KeysOnlyFromValidManagers ==
    (ret.op = "PublicKey" /\ ~crashed /\ ret.key # NilKey) =>
        /\ SchemeManagerIdentifier(ret.id) \in DOMAIN conf.SchemeManagers
        /\ conf.SchemeManagers[SchemeManagerIdentifier(ret.id)].Valid

\* C29: when the first PublicKey call for an issuer returns an error, the
\* cache entry of the issuer exists already; every later PublicKey call for
\* that issuer returns without error and leaves the Configuration alone: it
\* returns the key cached for the counter, or not-found.
C29_ErrorReportedOnce ==
    [][ret'.op = "PublicKey" =>
        /\ (ret'.first /\ ret'.err # NoErr /\ ~crashed') =>
              /\ ret'.id \in DOMAIN conf'.publicKeys
              /\ ret'.key = NilKey
        /\ ~ret'.first =>
              /\ ~crashed'
              /\ ret'.err = NoErr
              /\ conf' = conf
              /\ ret'.key = IF ret'.counter \in DOMAIN conf.publicKeys[ret'.id]
                            THEN conf.publicKeys[ret'.id][ret'.counter]
                            ELSE NilKey]_vars

\* a later call returns the key that was cached before the second key file,
\* which is listed in the index and is no key, made the first call fail
C29_Witness ==
    /\ ret.op = "PublicKey" /\ ~ret.first /\ ~crashed
    /\ ret.err = NoErr
    /\ ret.id = <<"m1", "/", "i1">> /\ ret.counter = 1 /\ ret.key.n = 1
    /\ DOMAIN conf.publicKeys[ret.id] = {1}
    /\ <<"m1">> \in DOMAIN conf.SchemeManagers
    /\ KFile("m1", "i1", "2.xml") \in DOMAIN conf.SchemeManagers[<<"m1">>].index
    /\ disk[KFile("m1", "i1", "2.xml")] = Junk
====
